---- MODULE Spec2Model ----
(***************************************************************************)
(* PersistMemoryManager (src/include/persist_memory_manager.h).            *)
(*                                                                         *)
(* Memory is flat: a block header lives at an absolute address, a manager  *)
(* header at the base address of its buffer, and block_at(base, off) is    *)
(* base + off, as in the code.  The host allocator (malloc/free) hands out *)
(* buffers at base addresses it chooses.  DOMAIN blk is the set of         *)
(* addresses whose bytes carry kBlockMagic: an address that was never      *)
(* written as a header, or whose magic was zeroed, is not in it.           *)
(***************************************************************************)
EXTENDS Integers, Sequences, FiniteSets, TLC

\* ---- program constants ----
kDefaultAlignment == 16
kMinAlignment == 8
kMaxAlignment == 4096
kMinMemorySize == 4096
kMinBlockSize == 32
kGrowNumerator == 5
kGrowDenominator == 4
kNoBlock == -1
kMagic == "PMM_V010"
kBlockMagic == "BLOCKHDR"
\* the value written over a magic to poison it (hdr->magic = 0)
kZeroMagic == "00000000"
SizeofBlockHeader == 72
SizeofManagerHeader == 96
nullptr == 0

\* ---- bounds of the model ----
\* allocate, reallocate and load calls of one run
MaxCalls == 3
MaxBufs == 3
\* allocate and reallocate calls of one run of the threads
MaxCallsMT == 4

\* the host allocator places buffer number i inside [i * Region, (i+1) * Region)
Region == 65536
\* malloc returns 16-byte aligned addresses: offsets of a base inside its region
BaseResidues == {0, 16}
\* buffer sizes handed to create, user sizes and alignments handed to allocate
CreateSizes == {4096, 4100}
UserSizes == {880, 2880}
Alignments == {16, 64}
Threads == {1, 2}

VARIABLES hdr, blk, heap, s_instance, dat, live, file, mgr, calls, s_mutex, pc, obs,
          paused_, mutex_, cv_, stop_flag, sc

\* the ScenarioCoordinator, the stop flags and the scenario threads of the demo
coord == <<paused_, mutex_, cv_, stop_flag, sc>>

vars == <<hdr, blk, heap, s_instance, dat, live, file, mgr, calls, s_mutex, pc, obs, coord>>

\* ---- detail:: helpers ----

Max(a, b) == IF a >= b THEN a ELSE b

align_up(value, align) == (value + align - 1) - ((value + align - 1) % align)

IsPow2(n) == n \in {1, 2, 4, 8, 16, 32, 64, 128, 256, 512, 1024, 2048, 4096}

is_valid_alignment(align) == align >= kMinAlignment /\ align <= kMaxAlignment /\ IsPow2(align)

block_at(base, offset) == base + offset

block_offset(base, b) == b - base

\* user_ptr aligns the absolute address that follows the header
user_ptr(b, alignment) == align_up(b + SizeofBlockHeader, alignment)

\* mutant: the padding that alignment may need is left out of the block size
required_block_size_nopad(user_size, alignment) ==
    align_up(Max(SizeofBlockHeader + user_size, kMinBlockSize), kMinAlignment)

required_block_size(user_size, alignment) ==
    align_up(Max(SizeofBlockHeader + (alignment - 1) + user_size, kMinBlockSize), kMinAlignment)

\* the machine state the operations transform: manager headers, block headers
\* and user bytes by address, the host allocator's buffers, s_instance
Machine(h, b, hp, inst, d) == [hdr |-> h, blk |-> b, heap |-> hp, inst |-> inst, dat |-> d]

\* mutant: the header of a free block is recovered too
header_from_ptr_anyblock(M, base, ptr) ==
    IF ptr = nullptr THEN nullptr
    ELSE LET min_addr == base + SizeofManagerHeader
             Cand == {c \in DOMAIN M.blk :
                        /\ ptr - SizeofBlockHeader - c >= 0
                        /\ ptr - SizeofBlockHeader - c < kMaxAlignment
                        /\ (ptr - SizeofBlockHeader - c) % kMinAlignment = 0
                        /\ c >= min_addr
                        /\ M.blk[c].magic = kBlockMagic
                        /\ user_ptr(c, M.blk[c].alignment) = ptr}
         IN IF Cand = {} THEN nullptr
            ELSE CHOOSE c \in Cand : \A d \in Cand : d <= c

header_from_ptr(M, base, ptr) ==
    IF ptr = nullptr THEN nullptr
    ELSE LET min_addr == base + SizeofManagerHeader
             Cand == {c \in DOMAIN M.blk :
                        /\ ptr - SizeofBlockHeader - c >= 0
                        /\ ptr - SizeofBlockHeader - c < kMaxAlignment
                        /\ (ptr - SizeofBlockHeader - c) % kMinAlignment = 0
                        /\ c >= min_addr
                        /\ M.blk[c].magic = kBlockMagic
                        /\ M.blk[c].used
                        /\ user_ptr(c, M.blk[c].alignment) = ptr}
         IN IF Cand = {} THEN nullptr
            ELSE CHOOSE c \in Cand : \A d \in Cand : d <= c

free_list_insert(M, base, b) ==
    LET head == M.hdr[base].first_free_offset
        M1 == [M EXCEPT !.blk[b].free_prev_offset = kNoBlock,
                        !.blk[b].free_next_offset = head]
        M2 == IF head # kNoBlock
              THEN [M1 EXCEPT !.blk[block_at(base, head)].free_prev_offset = block_offset(base, b)]
              ELSE M1
    IN [M2 EXCEPT !.hdr[base].first_free_offset = block_offset(base, b)]

\* mutant: the successor's free_prev_offset is not rewired
free_list_remove_noprev(M, base, b) ==
    LET fp == M.blk[b].free_prev_offset
        fn == M.blk[b].free_next_offset
        M1 == IF fp # kNoBlock
              THEN [M EXCEPT !.blk[block_at(base, fp)].free_next_offset = fn]
              ELSE [M EXCEPT !.hdr[base].first_free_offset = fn]
    IN [M1 EXCEPT !.blk[b].free_prev_offset = kNoBlock,
                  !.blk[b].free_next_offset = kNoBlock]

free_list_remove(M, base, b) ==
    LET fp == M.blk[b].free_prev_offset
        fn == M.blk[b].free_next_offset
        M1 == IF fp # kNoBlock
              THEN [M EXCEPT !.blk[block_at(base, fp)].free_next_offset = fn]
              ELSE [M EXCEPT !.hdr[base].first_free_offset = fn]
        M2 == IF fn # kNoBlock
              THEN [M1 EXCEPT !.blk[block_at(base, fn)].free_prev_offset = fp]
              ELSE M1
    IN [M2 EXCEPT !.blk[b].free_prev_offset = kNoBlock,
                  !.blk[b].free_next_offset = kNoBlock]

\* write a whole block header at address b
WriteBlock(M, b, rec) == [M EXCEPT !.blk = (b :> rec) @@ M.blk]

BlockHeader(prev, next, total, usz, al, used) ==
    [magic |-> kBlockMagic, prev_offset |-> prev, next_offset |-> next,
     total_size |-> total, user_size |-> usz, alignment |-> al, used |-> used,
     free_prev_offset |-> kNoBlock, free_next_offset |-> kNoBlock]

\* addresses of the all-blocks list that starts at offset off, in list order
RECURSIVE BlockWalk(_, _, _, _)
BlockWalk(M, base, off, fuel) ==
    IF off = kNoBlock \/ fuel = 0 \/ block_at(base, off) \notin DOMAIN M.blk THEN <<>>
    ELSE <<block_at(base, off)>> \o
         BlockWalk(M, base, M.blk[block_at(base, off)].next_offset, fuel - 1)

\* addresses of the free list that starts at offset off, in list order
RECURSIVE FreeWalk(_, _, _, _)
FreeWalk(M, base, off, fuel) ==
    IF off = kNoBlock \/ fuel = 0 \/ block_at(base, off) \notin DOMAIN M.blk THEN <<>>
    ELSE <<block_at(base, off)>> \o
         FreeWalk(M, base, M.blk[block_at(base, off)].free_next_offset, fuel - 1)

Fuel(M) == Cardinality(DOMAIN M.blk) + 1

AllBlocks(M, base) == BlockWalk(M, base, M.hdr[base].first_block_offset, Fuel(M))

FreeBlocks(M, base) == FreeWalk(M, base, M.hdr[base].first_free_offset, Fuel(M))

\* the first-fit search of allocate: first free block with total_size >= needed
FirstFit(M, base, needed) ==
    LET fl == FreeBlocks(M, base)
        ok == {i \in 1..Len(fl) : M.blk[fl[i]].total_size >= needed}
    IN IF ok = {} THEN nullptr ELSE fl[CHOOSE i \in ok : \A j \in ok : i <= j]

\* blk->magic = 0: the address no longer holds a block header
poison(M, b) == [M EXCEPT !.blk = [a \in DOMAIN M.blk \ {b} |-> M.blk[a]]]

\* the merge of coalesce, after both blocks left the free list: block a absorbs
\* its successor n
merge(M, base, a, n) ==
    LET nn == M.blk[n].next_offset
        A3 == [M EXCEPT !.blk[a].total_size = @ + M.blk[n].total_size,
                        !.blk[a].next_offset = nn]
        A4 == IF nn # kNoBlock
              THEN [A3 EXCEPT !.blk[block_at(base, nn)].prev_offset = block_offset(base, a)]
              ELSE A3
    IN [poison(A4, n) EXCEPT !.hdr[base].block_count = @ - 1,
                             !.hdr[base].free_count = @ - 1]

\* one merge step of coalesce: both blocks leave the free list, a absorbs n and
\* goes back to the head of the free list
coalesce_pair(M, base, a, n) ==
    free_list_insert(
        merge(free_list_remove(free_list_remove(M, base, a), base, n), base, a, n),
        base, a)

\* the first half of coalesce: merge with the next block when it is free
coalesce_next(M, base, b) ==
    LET nxt == M.blk[b].next_offset
        next_blk == block_at(base, nxt)
    IN IF nxt # kNoBlock /\ ~M.blk[next_blk].used
       THEN coalesce_pair(M, base, b, next_blk)
       ELSE M

\* the second half of coalesce: merge into the previous block when it is free
coalesce_prev(M, base, b) ==
    LET prv == M.blk[b].prev_offset
        prev_blk == block_at(base, prv)
    IN IF prv # kNoBlock /\ ~M.blk[prev_blk].used
       THEN coalesce_pair(M, base, prev_blk, b)
       ELSE M

\* mutant: a freed block is not merged with its neighbours
coalesce_none(M, base, b) == M

coalesce(M, base, b) == coalesce_prev(coalesce_next(M, base, b), base, b)

\* mutant: a split does not rewire the prev_offset of the block after the remainder
split_nolink(M, base, b, needed) ==
    LET blk_off == block_offset(base, b)
        new_blk_off == blk_off + needed
        new_blk == block_at(base, new_blk_off)
        S1 == WriteBlock(M, new_blk,
                  BlockHeader(blk_off, M.blk[b].next_offset, M.blk[b].total_size - needed, 0,
                              kDefaultAlignment, FALSE))
        S3 == [S1 EXCEPT !.blk[b].next_offset = new_blk_off,
                         !.blk[b].total_size = needed,
                         !.hdr[base].block_count = @ + 1,
                         !.hdr[base].free_count = @ + 1]
    IN IF M.blk[b].total_size >= needed + SizeofBlockHeader + kMinBlockSize
       THEN free_list_insert(S3, base, new_blk)
       ELSE M

\* the split of allocate_from_block, after b left the free list: when the
\* remainder can hold a block, a new free block follows the first needed bytes
split(M, base, b, needed) ==
    LET min_remainder == SizeofBlockHeader + kMinBlockSize
        can_split == M.blk[b].total_size >= needed + min_remainder
        blk_off == block_offset(base, b)
        new_blk_off == blk_off + needed
        new_blk == block_at(base, new_blk_off)
        nxt == M.blk[b].next_offset
        S1 == WriteBlock(M, new_blk,
                  BlockHeader(blk_off, nxt, M.blk[b].total_size - needed, 0,
                              kDefaultAlignment, FALSE))
        S2 == IF nxt # kNoBlock
              THEN [S1 EXCEPT !.blk[block_at(base, nxt)].prev_offset = new_blk_off]
              ELSE S1
        S3 == [S2 EXCEPT !.blk[b].next_offset = new_blk_off,
                         !.blk[b].total_size = needed,
                         !.hdr[base].block_count = @ + 1,
                         !.hdr[base].free_count = @ + 1]
    IN IF can_split THEN free_list_insert(S3, base, new_blk) ELSE M

\* mutant: used_size grows by the whole block, its header and padding included
mark_used_total(M, base, b, user_size, alignment) ==
    [M EXCEPT !.blk[b].used = TRUE,
              !.blk[b].user_size = user_size,
              !.blk[b].alignment = alignment,
              !.blk[b].free_prev_offset = kNoBlock,
              !.blk[b].free_next_offset = kNoBlock,
              !.hdr[base].alloc_count = @ + 1,
              !.hdr[base].free_count = @ - 1,
              !.hdr[base].used_size = @ + M.blk[b].total_size]

\* the end of allocate_from_block: the block is marked used and counted
mark_used(M, base, b, user_size, alignment) ==
    [M EXCEPT !.blk[b].used = TRUE,
              !.blk[b].user_size = user_size,
              !.blk[b].alignment = alignment,
              !.blk[b].free_prev_offset = kNoBlock,
              !.blk[b].free_next_offset = kNoBlock,
              !.hdr[base].alloc_count = @ + 1,
              !.hdr[base].free_count = @ - 1,
              !.hdr[base].used_size = @ + user_size]

\* returns the machine after the allocation and the user address
allocate_from_block(M, base, b, user_size, alignment) ==
    [M |-> mark_used(split(free_list_remove(M, base, b), base, b,
                           required_block_size(user_size, alignment)),
                     base, b, user_size, alignment),
     ret |-> user_ptr(b, alignment)]

\* ---- the host allocator ----

\* buffers never handed out so far; malloc returns the lowest, or fails
FreshBufs(M) == {i \in DOMAIN M.heap : M.heap[i].st = "none"}

\* the outcomes of std::malloc(size): nullptr, or a base address in a fresh buffer
MallocChoices(M) ==
    {nullptr} \cup
    (IF FreshBufs(M) = {} THEN {}
     ELSE LET i == CHOOSE j \in FreshBufs(M) : \A k \in FreshBufs(M) : j <= k
          IN {i * Region + r : r \in BaseResidues})

BufOf(addr) == addr \div Region

malloc_at(M, base, size) ==
    [M EXCEPT !.heap[BufOf(base)] = [base |-> base, size |-> size, st |-> "live"]]

\* std::free(p): releasing a buffer twice is recorded; the contents of a
\* released buffer are indeterminate and are dropped
free(M, p) ==
    LET size == M.heap[BufOf(p)].size
        keptb == {a \in DOMAIN M.blk : ~(a >= p /\ a < p + size)}
        kepth == DOMAIN M.hdr \ {p}
        keptd == {a \in DOMAIN M.dat : ~(a >= p /\ a < p + size)}
    IN [M EXCEPT !.heap[BufOf(p)] = [base |-> nullptr, size |-> 0,
                                     st |-> IF @.st = "live" THEN "freed" ELSE "double_free"],
                 !.blk = [a \in keptb |-> M.blk[a]],
                 !.hdr = [a \in kepth |-> M.hdr[a]],
                 !.dat = [a \in keptd |-> M.dat[a]]]

\* the user bytes after n bytes are copied from src to dst
copy_bytes(d, dst, src, n) ==
    LET moved == {a \in DOMAIN d : a >= src /\ a < src + n}
        kept == {a \in DOMAIN d : ~(a >= dst /\ a < dst + n)}
        target == kept \cup {dst + (a - src) : a \in moved}
    IN [a \in target |-> IF a >= dst /\ a < dst + n THEN d[src + (a - dst)] ELSE d[a]]

\* std::memcpy(dst, src, n) of a manager image: its headers and user bytes
memcpy(M, dst, src, n) ==
    LET moved == {a \in DOMAIN M.blk : a >= src /\ a < src + n}
        kept == {a \in DOMAIN M.blk : ~(a >= dst /\ a < dst + n)}
        target == kept \cup {dst + (a - src) : a \in moved}
    IN [M EXCEPT !.blk = [a \in target |->
                             IF a >= dst /\ a < dst + n THEN M.blk[src + (a - dst)]
                             ELSE M.blk[a]],
                 !.hdr = (dst :> M.hdr[src]) @@ M.hdr,
                 !.dat = copy_bytes(M.dat, dst, src, n)]

\* ---- PersistMemoryManager ----

\* the last block of the all-blocks list, or nullptr
LastBlock(M, base) ==
    LET all == AllBlocks(M, base)
    IN IF Len(all) = 0 THEN nullptr ELSE all[Len(all)]

\* expand, on the copy E1 in the new buffer: a free last block grows by the new
\* bytes; otherwise a new free block covers them, unless they are too few
expand_tail(E1, new_base, last_blk, extra_offset, extra_size) ==
    LET G1 == free_list_remove(E1, new_base, last_blk)
        G2 == [G1 EXCEPT !.blk[last_blk].total_size = @ + extra_size]
        new_blk == block_at(new_base, extra_offset)
        N1 == WriteBlock(E1, new_blk,
                  BlockHeader(IF last_blk # nullptr THEN block_offset(new_base, last_blk) ELSE kNoBlock,
                              kNoBlock, extra_size, 0, kDefaultAlignment, FALSE))
        N2 == IF last_blk # nullptr
              THEN [N1 EXCEPT !.blk[last_blk].next_offset = extra_offset]
              ELSE [N1 EXCEPT !.hdr[new_base].first_block_offset = extra_offset]
        N3 == [N2 EXCEPT !.hdr[new_base].block_count = @ + 1,
                         !.hdr[new_base].free_count = @ + 1]
    IN IF last_blk # nullptr /\ ~E1.blk[last_blk].used
       THEN [M |-> free_list_insert(G2, new_base, last_blk), ret |-> TRUE]
       ELSE IF extra_size < SizeofBlockHeader + kMinBlockSize
            THEN [M |-> E1, ret |-> FALSE]
            ELSE [M |-> free_list_insert(N3, new_base, new_blk), ret |-> TRUE]

\* the end of expand: T is the outcome of expand_tail. On failure the new
\* buffer is released; on success the header records the sizes, the buffer
\* before the old one is released and the singleton moves to the new buffer
expand_switch(M, this, T, new_base, old_size, new_size) ==
    LET X1 == [T.M EXCEPT !.hdr[new_base].total_size = new_size]
        X2 == IF M.hdr[this].prev_base # nullptr /\ M.hdr[this].prev_owns
              THEN free(X1, M.hdr[this].prev_base)
              ELSE X1
    IN IF ~T.ret
       THEN [M |-> free(malloc_at(M, new_base, new_size), new_base), ret |-> FALSE]
       ELSE [M |-> [X2 EXCEPT !.hdr[new_base].prev_base = this,
                              !.hdr[new_base].prev_total_size = old_size,
                              !.hdr[new_base].prev_owns = M.hdr[this].owns_memory,
                              !.inst = new_base],
             ret |-> TRUE]

\* mutant: only the first used_size bytes of the old image are copied
expand_copy_used(M, this, new_memory, old_size, new_size) ==
    [memcpy(malloc_at(M, new_memory, new_size), new_memory, this, M.hdr[this].used_size)
         EXCEPT !.hdr[new_memory].owns_memory = TRUE]

\* the copy of the old image into the new buffer, owned by the manager
expand_copy(M, this, new_memory, old_size, new_size) ==
    [memcpy(malloc_at(M, new_memory, new_size), new_memory, this, old_size)
         EXCEPT !.hdr[new_memory].owns_memory = TRUE]

\* expand from the copy on
expand_into(M, this, E1, new_base, old_size, new_size) ==
    expand_switch(M, this,
                  expand_tail(E1, new_base, LastBlock(E1, new_base), old_size,
                              new_size - old_size),
                  new_base, old_size, new_size)

\* mutant: the buffer grows by what the request needs, without the factor 5/4
grow_size_no_factor(old_size, needed) ==
    old_size + needed + align_up(SizeofBlockHeader, kDefaultAlignment)

\* mutant: the header overhead is left out when the request decides the size
grow_size_no_overhead(old_size, needed) ==
    IF (old_size * kGrowNumerator) \div kGrowDenominator < old_size + needed
    THEN old_size + needed
    ELSE (old_size * kGrowNumerator) \div kGrowDenominator

\* mutant: the buffer grows by the factor 5/4 whatever the request needs
grow_size_factor_only(old_size, needed) ==
    (old_size * kGrowNumerator) \div kGrowDenominator

\* the size of the new buffer that expand asks the host allocator for
grow_size(old_size, needed) ==
    IF (old_size * kGrowNumerator) \div kGrowDenominator < old_size + needed
    THEN old_size + needed + align_up(SizeofBlockHeader, kDefaultAlignment)
    ELSE (old_size * kGrowNumerator) \div kGrowDenominator

\* mutant: a refused buffer clears the singleton
expand_drop_instance(M, this, user_size, alignment, new_memory) ==
    LET old_size == M.hdr[this].total_size
        new_size == grow_size(old_size, required_block_size(user_size, alignment))
    IN IF new_memory = nullptr THEN [M |-> [M EXCEPT !.inst = nullptr], ret |-> FALSE]
       ELSE expand_into(M, this, expand_copy(M, this, new_memory, old_size, new_size),
                        new_memory, old_size, new_size)

\* new_memory is the outcome of std::malloc(new_size)
expand(M, this, user_size, alignment, new_memory) ==
    LET old_size == M.hdr[this].total_size
        new_size == grow_size(old_size, required_block_size(user_size, alignment))
    IN IF new_memory = nullptr THEN [M |-> M, ret |-> FALSE]
       ELSE expand_into(M, this, expand_copy(M, this, new_memory, old_size, new_size),
                        new_memory, old_size, new_size)

\* allocate after a successful or failed expand: ex is expand's outcome
allocate_grown(M, ex, user_size, alignment) ==
    LET new_mgr == ex.M.inst
        fit2 == FirstFit(ex.M, new_mgr, required_block_size(user_size, alignment))
    IN IF ~ex.ret THEN [M |-> ex.M, ret |-> nullptr]
       ELSE IF new_mgr = nullptr THEN [M |-> ex.M, ret |-> nullptr]
       ELSE IF fit2 # nullptr
            THEN allocate_from_block(ex.M, new_mgr, fit2, user_size, alignment)
            ELSE [M |-> ex.M, ret |-> nullptr]

\* allocate after the first-fit search: fit is the block found, or nullptr
allocate_fit(M, this, fit, user_size, alignment, new_memory) ==
    IF fit # nullptr THEN allocate_from_block(M, this, fit, user_size, alignment)
    ELSE allocate_grown(M, expand(M, this, user_size, alignment, new_memory),
                        user_size, alignment)

allocate(M, this, user_size, alignment, new_memory) ==
    IF user_size = 0 THEN [M |-> M, ret |-> nullptr]
    ELSE IF ~is_valid_alignment(alignment) THEN [M |-> M, ret |-> nullptr]
    ELSE allocate_fit(M, this,
                      FirstFit(M, this, required_block_size(user_size, alignment)),
                      user_size, alignment, new_memory)

\* the translation of a pointer into the previous buffer, as deallocate and reallocate do it
translate(M, this, ptr) ==
    LET h == M.hdr[this]
    IN IF h.prev_base # nullptr /\ h.prev_total_size > 0
          /\ ptr >= h.prev_base /\ ptr < h.prev_base + h.prev_total_size
       THEN this + (ptr - h.prev_base)
       ELSE ptr

\* mutant: free_count is not incremented when a block is freed
release_nocount(M, this, b) ==
    [M EXCEPT !.blk[b].used = FALSE,
              !.blk[b].user_size = 0,
              !.hdr[this].alloc_count = @ - 1,
              !.hdr[this].used_size = IF @ >= M.blk[b].user_size
                                      THEN @ - M.blk[b].user_size ELSE @]

\* deallocate's update of the block and of the counters
release(M, this, b) ==
    [M EXCEPT !.blk[b].used = FALSE,
              !.blk[b].user_size = 0,
              !.hdr[this].alloc_count = @ - 1,
              !.hdr[this].free_count = @ + 1,
              !.hdr[this].used_size = IF @ >= M.blk[b].user_size
                                      THEN @ - M.blk[b].user_size ELSE @]

\* the first writes of deallocate's update: the block and alloc_count
release_begin(M, this, b) ==
    [M EXCEPT !.blk[b].used = FALSE,
              !.blk[b].user_size = 0,
              !.hdr[this].alloc_count = @ - 1]

\* the writes that follow: free_count and used_size; freed is the user_size
\* the block had
release_end(M, this, freed) ==
    [M EXCEPT !.hdr[this].free_count = @ + 1,
              !.hdr[this].used_size = IF @ >= freed THEN @ - freed ELSE @]

\* deallocate once the header is recovered: b is the block, or nullptr
deallocate_block(M, this, b) ==
    IF b = nullptr THEN M
    ELSE coalesce(free_list_insert(release(M, this, b), this, b), this, b)

deallocate(M, this, ptr0) ==
    IF ptr0 = nullptr THEN M
    ELSE deallocate_block(M, this, header_from_ptr(M, this, translate(M, this, ptr0)))

\* mutant: the old block is released whether or not the allocation succeeded
reallocate_move_always(al, this, ptr) ==
    [M |-> deallocate(al.M, this, ptr), ret |-> al.ret]

\* the end of a moving reallocate: al is the outcome of allocate; the old
\* block is released through this, the manager the call started on
reallocate_move(al, this, ptr) ==
    IF al.ret = nullptr THEN [M |-> al.M, ret |-> nullptr]
    ELSE [M |-> deallocate(al.M, this, ptr), ret |-> al.ret]

\* std::memcpy(new_ptr, ptr, blk->user_size) after a successful allocate
copy_user(al, ptr, n) ==
    IF al.ret = nullptr THEN al
    ELSE [al EXCEPT !.M.dat = copy_bytes(al.M.dat, al.ret, ptr, n)]

\* reallocate once the header is recovered: ptr is translated, b is its block
reallocate_block(M, this, ptr, b, new_size, new_memory) ==
    IF b = nullptr THEN [M |-> M, ret |-> nullptr]
    ELSE IF new_size <= M.blk[b].user_size THEN [M |-> M, ret |-> ptr]
    ELSE reallocate_move(copy_user(allocate(M, this, new_size, M.blk[b].alignment,
                                            new_memory),
                                   ptr, M.blk[b].user_size),
                         this, ptr)

reallocate(M, this, ptr0, new_size, new_memory) ==
    IF ptr0 = nullptr THEN allocate(M, this, new_size, kDefaultAlignment, new_memory)
    ELSE IF new_size = 0 THEN [M |-> deallocate(M, this, ptr0), ret |-> nullptr]
    ELSE reallocate_block(M, this, translate(M, this, ptr0),
                          header_from_ptr(M, this, translate(M, this, ptr0)),
                          new_size, new_memory)

ManagerHeader(size) ==
    [magic |-> kMagic, total_size |-> size, used_size |-> SizeofManagerHeader,
     block_count |-> 0, free_count |-> 0, alloc_count |-> 0,
     first_block_offset |-> kNoBlock, first_free_offset |-> kNoBlock,
     owns_memory |-> TRUE, prev_total_size |-> 0, prev_base |-> nullptr,
     prev_owns |-> FALSE]

\* mutant: the first block is given the whole buffer size
create_whole(M, memory, size) ==
    LET C0 == [M EXCEPT !.hdr = (memory :> ManagerHeader(size)) @@ M.hdr]
        blk_off == align_up(SizeofManagerHeader, kDefaultAlignment)
        C1 == WriteBlock(C0, block_at(memory, blk_off),
                  BlockHeader(kNoBlock, kNoBlock, size, 0, kDefaultAlignment, FALSE))
    IN [M |-> [C1 EXCEPT !.hdr[memory].first_block_offset = blk_off,
                         !.hdr[memory].first_free_offset = blk_off,
                         !.hdr[memory].block_count = 1,
                         !.hdr[memory].free_count = 1,
                         !.hdr[memory].used_size = blk_off + SizeofBlockHeader,
                         !.inst = memory],
        ret |-> memory]

\* create(memory, size); ret is the manager installed, or nullptr
create(M, memory, size) ==
    LET base == memory
        C0 == [M EXCEPT !.hdr = (base :> ManagerHeader(size)) @@ M.hdr]
        hdr_end == align_up(SizeofManagerHeader, kDefaultAlignment)
        blk_off == hdr_end
        C1 == WriteBlock(C0, block_at(base, blk_off),
                  BlockHeader(kNoBlock, kNoBlock, size - blk_off, 0, kDefaultAlignment, FALSE))
        C2 == [C1 EXCEPT !.hdr[base].first_block_offset = blk_off,
                         !.hdr[base].first_free_offset = blk_off,
                         !.hdr[base].block_count = 1,
                         !.hdr[base].free_count = 1,
                         !.hdr[base].used_size = hdr_end + SizeofBlockHeader,
                         !.inst = base]
    IN IF memory = nullptr \/ size < kMinMemorySize THEN [M |-> M, ret |-> nullptr]
       ELSE IF blk_off + SizeofBlockHeader + kMinBlockSize > size THEN [M |-> C0, ret |-> nullptr]
       ELSE [M |-> C2, ret |-> base]

RECURSIVE rebuild_from(_, _, _, _)
rebuild_from(M, base, all, i) ==
    IF i > Len(all) THEN M
    ELSE LET b == all[i]
             R0 == [M EXCEPT !.blk[b].free_prev_offset = kNoBlock,
                             !.blk[b].free_next_offset = kNoBlock]
         IN rebuild_from(IF ~M.blk[b].used THEN free_list_insert(R0, base, b) ELSE R0,
                         base, all, i + 1)

rebuild_free_list(M, base) ==
    rebuild_from([M EXCEPT !.hdr[base].first_free_offset = kNoBlock], base,
                 AllBlocks(M, base), 1)

\* mutant: load installs the image without looking at magic and total_size
load_unchecked(M, memory, size) ==
    LET base == memory
        L0 == [M EXCEPT !.hdr[base].owns_memory = TRUE,
                        !.hdr[base].prev_total_size = 0,
                        !.hdr[base].prev_base = nullptr,
                        !.hdr[base].prev_owns = FALSE]
        L1 == rebuild_free_list(L0, base)
    IN IF memory = nullptr \/ size < kMinMemorySize THEN [M |-> M, ret |-> nullptr]
       ELSE [M |-> [L1 EXCEPT !.inst = base], ret |-> base]

\* mutant: load formats the buffer as create does
load_fresh(M, memory, size) == create(M, memory, size)

\* load(memory, size); the image is already in the buffer
load(M, memory, size) ==
    LET base == memory
        L0 == [M EXCEPT !.hdr[base].owns_memory = TRUE,
                        !.hdr[base].prev_total_size = 0,
                        !.hdr[base].prev_base = nullptr,
                        !.hdr[base].prev_owns = FALSE]
        L1 == rebuild_free_list(L0, base)
    IN IF memory = nullptr \/ size < kMinMemorySize THEN [M |-> M, ret |-> nullptr]
       ELSE IF M.hdr[base].magic # kMagic \/ M.hdr[base].total_size # size
            THEN [M |-> M, ret |-> nullptr]
            ELSE [M |-> [L1 EXCEPT !.inst = base], ret |-> base]

\* mutant: the buffer kept from before the last growth is not released
destroy_current(M) ==
    LET h == M.hdr[M.inst]
        D0 == [M EXCEPT !.hdr[M.inst].magic = kZeroMagic, !.inst = nullptr]
        D2 == IF h.owns_memory THEN free(D0, M.inst) ELSE D0
    IN IF M.inst # nullptr THEN D2 ELSE M

destroy(M) ==
    LET h == M.hdr[M.inst]
        D0 == [M EXCEPT !.hdr[M.inst].magic = kZeroMagic, !.inst = nullptr]
        D1 == IF h.prev_base # nullptr /\ h.prev_owns THEN free(D0, h.prev_base) ELSE D0
        D2 == IF h.owns_memory THEN free(D1, M.inst) ELSE D1
    IN IF M.inst # nullptr THEN D2 ELSE M

\* the bytes save() writes: the image of the buffer of this, addressed by offset
\* mutant: the user bytes are written only up to used_size
save_used(M, this) ==
    LET size == M.hdr[this].total_size
        offs == {a - this : a \in {x \in DOMAIN M.blk : x >= this /\ x < this + size}}
        doffs == {a - this : a \in {x \in DOMAIN M.dat :
                                        x >= this /\ x < this + M.hdr[this].used_size}}
    IN [size |-> size, hdr |-> M.hdr[this], blk |-> [o \in offs |-> M.blk[this + o]],
        dat |-> [o \in doffs |-> M.dat[this + o]]]

save(M, this) ==
    LET size == M.hdr[this].total_size
        offs == {a - this : a \in {x \in DOMAIN M.blk : x >= this /\ x < this + size}}
        doffs == {a - this : a \in {x \in DOMAIN M.dat : x >= this /\ x < this + size}}
    IN [size |-> size, hdr |-> M.hdr[this], blk |-> [o \in offs |-> M.blk[this + o]],
        dat |-> [o \in doffs |-> M.dat[this + o]]]

\* fread of a saved image into the buffer at memory
fread(M, memory, image) ==
    LET kept == {a \in DOMAIN M.blk : ~(a >= memory /\ a < memory + image.size)}
        target == kept \cup {memory + o : o \in DOMAIN image.blk}
        keptd == {a \in DOMAIN M.dat : ~(a >= memory /\ a < memory + image.size)}
        targetd == keptd \cup {memory + o : o \in DOMAIN image.dat}
    IN [M EXCEPT !.blk = [a \in target |->
                             IF a >= memory /\ a < memory + image.size
                             THEN image.blk[a - memory] ELSE M.blk[a]],
                 !.hdr = (memory :> image.hdr) @@ M.hdr,
                 !.dat = [a \in targetd |->
                             IF a >= memory /\ a < memory + image.size
                             THEN image.dat[a - memory] ELSE M.dat[a]]]

\* ---- the callers ----

CurM == Machine(hdr, blk, heap, s_instance, dat)

Commit(M) ==
    hdr' = M.hdr /\ blk' = M.blk /\ heap' = M.heap /\ s_instance' = M.inst /\ dat' = M.dat

NoFile == [size |-> 0]

Alloc(p, size, alignment) == [p |-> p, size |-> size, alignment |-> alignment]

\* the buffer of manager this, and the buffer its growth window translates from
InBuffer(this, p) == p >= this /\ p < this + hdr[this].total_size

InPrevWindow(this, p) ==
    /\ hdr[this].prev_base # nullptr
    /\ p >= hdr[this].prev_base /\ p < hdr[this].prev_base + hdr[this].prev_total_size

\* the offset a caller derives from a pointer it holds
OffsetOf(this, p) == IF InBuffer(this, p) THEN p - this ELSE p - hdr[this].prev_base

\* pointers a caller passes to deallocate and reallocate through manager this:
\* null, the allocations it holds in the buffer or in the growth window, an
\* address inside one of them, and the user address of a block that is free
PtrArgs(this) ==
    LET held == {l.p : l \in {x \in live : InBuffer(this, x.p) \/ InPrevWindow(this, x.p)}}
        freeb == {b \in DOMAIN blk : InBuffer(this, b) /\ blk[b].magic = kBlockMagic /\ ~blk[b].used}
    IN IF this = nullptr THEN {}
       ELSE {nullptr} \cup held \cup {p + kMinAlignment : p \in held}
            \cup {user_ptr(b, blk[b].alignment) : b \in freeb}

\* s_mutex when no thread owns it; owner 0 is no thread
Unlocked == [owner |-> 0, count |-> 0]

\* a thread that is in no call
Idle == [at |-> "idle", top |-> "none", this |-> nullptr, ptr0 |-> nullptr,
         ptr |-> nullptr, new_size |-> 0, alignment |-> 0, new_ptr |-> nullptr,
         moves |-> FALSE, b |-> nullptr, freed |-> 0]

\* what the last call of validate() or get_stats() returned: no call yet
NoObs == [kind |-> "none"]

\* the thread that owns the ScenarioManager or runs a test, and the scenario
\* threads it starts
Main == 0
ScenarioIds == {1, 2, 3}

\* a thread that was not started: at is its position, ret the position
\* yield_if_paused returns to, mgr, before, held, buf and i the locals mgr,
\* mgr_before, live, buf and i of a scenario, waited whether it blocked on
\* cv_; a local that is not read again before it is assigned holds its
\* initial value
NotStarted ==
    [at |-> "start", ret |-> "start", mgr |-> nullptr, before |-> nullptr, held |-> <<>>,
     buf |-> nullptr, waited |-> FALSE, i |-> 0]

\* a fresh ScenarioCoordinator: paused_{false}, mutex_ free (owner 0 is no
\* thread), nobody waits on cv_; every stop_flag{false}
CoordInit ==
    /\ paused_ = FALSE
    /\ mutex_ = 0
    /\ cv_ = {}
    /\ stop_flag = [t \in ScenarioIds |-> FALSE]
    /\ sc = [t \in {Main} \cup ScenarioIds |-> NotStarted]

Init ==
    /\ hdr = <<>>
    /\ blk = <<>>
    /\ heap = [i \in 1..MaxBufs |-> [base |-> nullptr, size |-> 0, st |-> "none"]]
    /\ s_instance = nullptr
    /\ dat = <<>>
    /\ live = {}
    /\ file = NoFile
    /\ mgr = [t \in Threads |-> nullptr]
    /\ calls = 0
    /\ s_mutex = Unlocked
    /\ pc = [t \in Threads |-> Idle]
    /\ obs = NoObs
    /\ CoordInit

\* the caller mallocs a buffer and hands it to create; a run creates once
Create(size, memory) ==
    /\ s_instance = nullptr
    /\ file = NoFile
    /\ \A i \in DOMAIN heap : heap[i].st = "none"
    /\ memory # nullptr
    /\ LET r == create(malloc_at(CurM, memory, size), memory, size)
       IN /\ Commit(r.M)
    /\ UNCHANGED <<live, file, mgr, calls, s_mutex, pc, obs, coord>>

Allocate(this, user_size, alignment, new_memory) ==
    /\ this # nullptr
    /\ file = NoFile
    /\ calls' = calls + 1
    /\ \E r \in {allocate(CurM, this, user_size, alignment, new_memory)} :
          /\ Commit(r.M)
          /\ live' = IF r.ret = nullptr THEN live
                     ELSE live \cup {Alloc(r.ret, user_size, alignment)}
    /\ UNCHANGED <<file, mgr, s_mutex, pc, obs, coord>>

Deallocate(this, ptr) ==
    /\ this # nullptr
    /\ file = NoFile
    /\ Commit(deallocate(CurM, this, ptr))
    /\ live' = {l \in live : l.p # ptr}
    /\ UNCHANGED <<file, mgr, calls, s_mutex, pc, obs, coord>>

Reallocate(this, ptr, new_size, new_memory) ==
    /\ this # nullptr
    /\ file = NoFile
    /\ calls' = calls + 1
    /\ \E r \in {reallocate(CurM, this, ptr, new_size, new_memory)},
          old \in {{l \in live : l.p = ptr}} :
          /\ Commit(r.M)
          /\ live' = IF ptr = nullptr
                     THEN (IF r.ret = nullptr THEN live
                           ELSE live \cup {Alloc(r.ret, new_size, kDefaultAlignment)})
                     ELSE IF new_size = 0 THEN live \ old
                     ELSE IF r.ret = nullptr THEN live
                     ELSE IF new_size <= blk[header_from_ptr(CurM, this, translate(CurM, this, ptr))].user_size
                          THEN (live \ old) \cup {Alloc(r.ret, l.size, l.alignment) : l \in old}
                          ELSE (live \ old) \cup {Alloc(r.ret, new_size, l.alignment) : l \in old}
    /\ UNCHANGED <<file, mgr, s_mutex, pc, obs, coord>>

Save ==
    /\ s_instance # nullptr
    /\ file = NoFile
    /\ file' = save(CurM, s_instance) @@
               [ptrs |-> {Alloc(OffsetOf(s_instance, l.p), l.size, l.alignment) :
                              l \in {x \in live : InBuffer(s_instance, x.p)
                                                  \/ InPrevWindow(s_instance, x.p)}}]
    /\ UNCHANGED <<hdr, blk, heap, s_instance, dat, live, mgr, calls, s_mutex, pc, obs, coord>>

Destroy ==
    /\ s_instance # nullptr
    /\ Commit(destroy(CurM))
    /\ live' = {}
    /\ UNCHANGED <<file, mgr, calls, s_mutex, pc, obs, coord>>

\* a run saves when it goes on to destroy and load, and the file is read once
\* load_from_file: the caller mallocs a buffer of the file's size, reads the
\* image into it and calls load; it re-derives its pointers from their offsets
Load(memory) ==
    /\ s_instance = nullptr
    /\ file # NoFile
    /\ memory # nullptr
    /\ LET r == load(fread(malloc_at(CurM, memory, file.size), memory, file), memory, file.size)
       IN /\ Commit(r.M)
          /\ live' = {Alloc(memory + l.p, l.size, l.alignment) : l \in file.ptrs}
    /\ file' = NoFile
    /\ calls' = calls + 1
    /\ UNCHANGED <<mgr, s_mutex, pc, obs, coord>>

Next ==
    \/ \E size \in CreateSizes, memory \in MallocChoices(CurM) : Create(size, memory)
    \/ \E n \in UserSizes, a \in Alignments, nm \in MallocChoices(CurM) :
          calls < MaxCalls /\ Allocate(s_instance, n, a, nm)
    \/ \E p \in PtrArgs(s_instance) : Deallocate(s_instance, p)
    \/ \E p \in PtrArgs(s_instance), n \in UserSizes \cup {0}, nm \in MallocChoices(CurM) :
          calls < MaxCalls /\ Reallocate(s_instance, p, n, nm)
    \/ calls < MaxCalls /\ Save
    \/ Destroy
    \/ \E memory \in MallocChoices(CurM) : calls < MaxCalls /\ Load(memory)

Spec == Init /\ [][Next]_vars

\* ---- the invariants of the data model, on the image of the current manager ----

Installed == s_instance # nullptr

H == hdr[s_instance]

\* the all-blocks list and the free list, as sequences of addresses
All == AllBlocks(CurM, s_instance)

Free == FreeBlocks(CurM, s_instance)

Range(seq) == {seq[i] : i \in 1..Len(seq)}

Grown == Installed /\ H.prev_base # nullptr

RECURSIVE SumSizes(_, _)
SumSizes(seq, i) == IF i > Len(seq) THEN 0 ELSE blk[seq[i]].total_size + SumSizes(seq, i + 1)

\* C1: block_count == free_count + alloc_count, and each counter is the number
\* of blocks of its kind in the all-blocks list
C1_Counters ==
    Installed =>
        /\ H.block_count = H.free_count + H.alloc_count
        /\ H.block_count = Len(All)
        /\ H.alloc_count = Cardinality({i \in 1..Len(All) : blk[All[i]].used})
        /\ H.free_count = Cardinality({i \in 1..Len(All) : ~blk[All[i]].used})

\* a grown buffer that holds a split block, used and free blocks
C1_Witness ==
    /\ Grown
    /\ H.block_count >= 3
    /\ H.alloc_count >= 1
    /\ H.free_count >= 2

\* C2: the all-blocks list is a well-formed doubly-linked list: offsets are in
\* range and B.next.prev == B
C2_ListWellFormed ==
    Installed =>
        /\ H.first_block_offset # kNoBlock
        /\ \A i \in 1..Len(All) :
              LET b == All[i]
              IN /\ block_offset(s_instance, b) >= 0
                 /\ block_offset(s_instance, b) < H.total_size
                 /\ blk[b].next_offset # kNoBlock =>
                       /\ block_at(s_instance, blk[b].next_offset) \in DOMAIN blk
                       /\ blk[block_at(s_instance, blk[b].next_offset)].prev_offset
                             = block_offset(s_instance, b)
        \* the walk ended at the end of the list, not at a missing header
        /\ Len(All) >= 1 /\ blk[All[Len(All)]].next_offset = kNoBlock
        /\ blk[All[1]].prev_offset = kNoBlock

\* a list of four blocks in a grown buffer
C2_Witness == Grown /\ Len(All) >= 4

\* C3: the free list holds every free block exactly once, no used block, and
\* its length is free_count
C3_FreeList ==
    Installed =>
        /\ Range(Free) = {b \in Range(All) : ~blk[b].used}
        /\ Len(Free) = Cardinality(Range(Free))
        /\ Len(Free) = H.free_count
        /\ Len(Free) = 0 \/ blk[Free[Len(Free)]].free_next_offset = kNoBlock

\* a free list of two blocks next to a used block, in a grown buffer
C3_Witness == Grown /\ Len(Free) >= 2 /\ H.alloc_count >= 1

\* C4: no two adjacent blocks of the all-blocks list are both free
C4_NoAdjacentFree ==
    Installed =>
        \A i \in 1..(Len(All) - 1) : blk[All[i]].used \/ blk[All[i + 1]].used

\* a grown buffer in which a block was freed between used and free neighbours
C4_Witness ==
    /\ Grown
    /\ \E i \in 1..(Len(All) - 1) : ~blk[All[i]].used /\ blk[All[i + 1]].used
    /\ ~blk[All[Len(All)]].used

\* C5: the blocks tile the buffer: first_block_offset plus the sum of the
\* total_size of all blocks is the header's total_size
C5_Tiling ==
    Installed => H.first_block_offset + SumSizes(All, 1) = H.total_size

\* a grown buffer tiled by at least three blocks
C5_Witness == Grown /\ Len(All) >= 3 /\ H.total_size > kMinMemorySize + 4

\* C6: every block's total_size is at least the minimum block size and a
\* multiple of the minimum alignment, and every block header starts at a
\* multiple of the minimum alignment
C6_BlockSizes ==
    Installed =>
        \A i \in 1..Len(All) :
            /\ blk[All[i]].total_size >= kMinBlockSize
            /\ blk[All[i]].total_size % kMinAlignment = 0
            /\ block_offset(s_instance, All[i]) % kMinAlignment = 0

\* C8: the user address of every used block is a multiple of its recorded
\* alignment and lies within
\* [B.offset + header_size, B.offset + B.total_size - B.user_size]
C8_UserAddress ==
    Installed =>
        \A i \in 1..Len(All) :
            LET b == All[i]
                u == user_ptr(b, blk[b].alignment)
            IN blk[b].used =>
                  /\ u % blk[b].alignment = 0
                  /\ u >= b + SizeofBlockHeader
                  /\ u <= b + blk[b].total_size - blk[b].user_size

\* a used block with alignment 64 whose user area needs padding, in a buffer
\* that growth or load placed at a base that is not a multiple of 64
C8_Witness ==
    /\ Installed
    /\ s_instance % 64 # 0
    /\ s_instance > 2 * Region
    /\ \E i \in 1..Len(All) :
          /\ blk[All[i]].used
          /\ blk[All[i]].alignment = 64
          /\ user_ptr(All[i], 64) > All[i] + SizeofBlockHeader

\* ---- threads: a caller reads instance() and then calls through the pointer ----

\* PersistMemoryManager::instance(), read by thread t before a call (or cached)
Instance(t) ==
    /\ mgr[t] # s_instance
    /\ mgr' = [mgr EXCEPT ![t] = s_instance]
    /\ UNCHANGED <<hdr, blk, heap, s_instance, dat, live, file, calls, s_mutex, pc, obs, coord>>

\* the manager a thread calls through is in a buffer that was not released
Callable(this) == this # nullptr /\ this \in DOMAIN hdr

InitMT ==
    LET r == create(malloc_at(Machine(<<>>, <<>>,
                                      [i \in 1..MaxBufs |-> [base |-> nullptr, size |-> 0, st |-> "none"]],
                                      nullptr, <<>>),
                              Region, kMinMemorySize),
                    Region, kMinMemorySize)
    IN /\ hdr = r.M.hdr
       /\ blk = r.M.blk
       /\ heap = r.M.heap
       /\ s_instance = r.M.inst
       /\ dat = r.M.dat
       /\ live = {}
       /\ file = NoFile
       /\ mgr = [t \in Threads |-> r.ret]
       /\ calls = 0
       /\ s_mutex = Unlocked
       /\ pc = [t \in Threads |-> Idle]
       /\ obs = NoObs
       /\ CoordInit

\* the lock serialises the calls: each runs to completion on the manager the
\* thread read before it took the lock
NextMT ==
    \E t \in Threads :
        \/ Instance(t)
        \/ \E n \in UserSizes, nm \in MallocChoices(CurM) :
              calls < MaxCallsMT /\ Callable(mgr[t])
              /\ Allocate(mgr[t], n, kDefaultAlignment, nm)
        \/ \E p \in PtrArgs(IF Callable(mgr[t]) THEN mgr[t] ELSE nullptr) :
              Callable(mgr[t]) /\ Deallocate(mgr[t], p)
        \/ \E p \in PtrArgs(IF Callable(mgr[t]) THEN mgr[t] ELSE nullptr),
              n \in UserSizes \cup {0}, nm \in MallocChoices(CurM) :
              calls < MaxCallsMT /\ Callable(mgr[t]) /\ Reallocate(mgr[t], p, n, nm)

SpecMT == InitMT /\ [][NextMT]_vars

\* C7: the user areas of two distinct live allocations are disjoint
C7_Disjoint ==
    \A x \in live, y \in live :
        x # y => (x.p + x.size <= y.p \/ y.p + y.size <= x.p)

\* ---- allocate and deallocate calls only ----

NextAllocFree ==
    \/ \E size \in CreateSizes, memory \in MallocChoices(CurM) : Create(size, memory)
    \/ \E n \in UserSizes, a \in Alignments, nm \in MallocChoices(CurM) :
          calls < MaxCalls /\ Allocate(s_instance, n, a, nm)
    \/ \E p \in PtrArgs(s_instance) : Deallocate(s_instance, p)

SpecAllocFree == Init /\ [][NextAllocFree]_vars

\* C9: once every pointer that allocate returned has been handed to
\* deallocate, alloc_count == 0 and free_count == 1
C9_FullCoalesce ==
    (Installed /\ calls > 0 /\ live = {}) =>
        (H.alloc_count = 0 /\ H.free_count = 1)

\* C10: a pointer returned before the growth is a valid input after it:
\* deallocate frees, and reallocate finds, the block at the same offset in the
\* current buffer
C10_StalePointerValid ==
    Installed =>
        \A l \in live :
            InPrevWindow(s_instance, l.p) =>
                LET b == header_from_ptr(CurM, s_instance, translate(CurM, s_instance, l.p))
                    old == header_from_ptr(CurM, H.prev_base, l.p)
                    D == deallocate(CurM, s_instance, l.p)
                    R == reallocate(CurM, s_instance, l.p, l.size, nullptr)
                IN /\ b # nullptr
                   /\ block_offset(s_instance, b) = block_offset(H.prev_base, old)
                   /\ (b \notin DOMAIN D.blk \/ ~D.blk[b].used)
                   /\ D.hdr[s_instance].alloc_count = H.alloc_count - 1
                   /\ R.ret = translate(CurM, s_instance, l.p)

\* ---- validate() ----

\* the walk of validate() from offset off: the counts so far are bc, fc, ac
RECURSIVE validate_walk(_, _, _, _, _, _, _)
validate_walk(M, this, offset, block_count, free_count, alloc_count, fuel) ==
    IF offset = kNoBlock
    THEN /\ block_count = M.hdr[this].block_count
         /\ free_count = M.hdr[this].free_count
         /\ alloc_count = M.hdr[this].alloc_count
    ELSE IF fuel = 0 THEN FALSE
    ELSE IF offset < 0 \/ offset >= M.hdr[this].total_size THEN FALSE
    ELSE IF block_at(this, offset) \notin DOMAIN M.blk THEN FALSE
    ELSE IF M.blk[block_at(this, offset)].magic # kBlockMagic THEN FALSE
    ELSE IF /\ M.blk[block_at(this, offset)].next_offset # kNoBlock
            /\ \/ block_at(this, M.blk[block_at(this, offset)].next_offset) \notin DOMAIN M.blk
               \/ M.blk[block_at(this, M.blk[block_at(this, offset)].next_offset)].prev_offset
                     # offset
         THEN FALSE
    ELSE validate_walk(M, this, M.blk[block_at(this, offset)].next_offset,
                       block_count + 1,
                       free_count + (IF M.blk[block_at(this, offset)].used THEN 0 ELSE 1),
                       alloc_count + (IF M.blk[block_at(this, offset)].used THEN 1 ELSE 0),
                       fuel - 1)

validate(M, this) ==
    /\ M.hdr[this].magic = kMagic
    /\ validate_walk(M, this, M.hdr[this].first_block_offset, 0, 0, 0, Fuel(M))

\* ---- growth after growth: the caller keeps every pointer allocate returned ----

\* a buffer of the minimum size, allocations with the default alignment, and
\* deallocate of any pointer the caller holds, through the current manager
NextMultiGrow ==
    \/ \E memory \in MallocChoices(CurM) : Create(kMinMemorySize, memory)
    \/ \E n \in UserSizes, nm \in MallocChoices(CurM) :
          calls < MaxCalls /\ Allocate(s_instance, n, kDefaultAlignment, nm)
    \/ \E l \in live : Deallocate(s_instance, l.p)

SpecMultiGrow == Init /\ [][NextMultiGrow]_vars

\* C11: after any number of growths, once every pointer allocate returned has
\* been handed to deallocate through the current manager, alloc_count == 0 and
\* validate() returns true
C11_AllFreedAfterGrowths ==
    (Installed /\ calls > 0 /\ live = {}) =>
        (H.alloc_count = 0 /\ validate(CurM, s_instance))

\* ---- growth ----

\* the requests that the free list of the current image cannot serve
NeedsGrowth(n, a) ==
    FirstFit(CurM, s_instance, required_block_size(n, a)) = nullptr

\* block b of the current image and the block at the same offset in image M2
\* at new_base agree on the fields a growth must keep
SameBlock(M2, new_base, b, isLast) ==
    LET c == block_at(new_base, block_offset(s_instance, b))
    IN /\ c \in DOMAIN M2.blk
       /\ M2.blk[c].magic = blk[b].magic
       /\ M2.blk[c].used = blk[b].used
       /\ M2.blk[c].user_size = blk[b].user_size
       /\ M2.blk[c].alignment = blk[b].alignment
       /\ M2.blk[c].prev_offset = blk[b].prev_offset
       /\ (~isLast => M2.blk[c].next_offset = blk[b].next_offset)
       /\ (~isLast \/ blk[b].used => M2.blk[c].total_size = blk[b].total_size)

Growths ==
    {[n |-> n, a |-> a, ex |-> expand(CurM, s_instance, n, a, nm)] :
        n \in {x \in UserSizes : \E y \in Alignments : NeedsGrowth(x, y)},
        a \in {y \in Alignments : \E x \in UserSizes : NeedsGrowth(x, y)},
        nm \in MallocChoices(CurM) \ {nullptr}}

\* total_size of the image that growth g installs
GrownSize(g) == g.ex.M.hdr[g.ex.M.inst].total_size

C14_GrowSizeMax ==
    Installed =>
        \A g \in Growths :
            (NeedsGrowth(g.n, g.a) /\ g.ex.ret) =>
                GrownSize(g) =
                    Max((kGrowNumerator * H.total_size) \div kGrowDenominator,
                        H.total_size + required_block_size(g.n, g.a)
                            + align_up(SizeofBlockHeader, kDefaultAlignment))

\* C14 amended: the new buffer size is old * 5 / 4 rounded down when that is
\* at least old + needed, and old + needed + header_overhead otherwise
C14_GrowSizeCases ==
    Installed =>
        \A g \in Growths :
            (NeedsGrowth(g.n, g.a) /\ g.ex.ret) =>
                GrownSize(g) =
                    IF (kGrowNumerator * H.total_size) \div kGrowDenominator
                           >= H.total_size + required_block_size(g.n, g.a)
                    THEN (kGrowNumerator * H.total_size) \div kGrowDenominator
                    ELSE H.total_size + required_block_size(g.n, g.a)
                             + align_up(SizeofBlockHeader, kDefaultAlignment)

\* a growth whose size the factor decides although old + needed +
\* header_overhead is larger, and one whose size the request decides
C14_Witness ==
    /\ Installed
    /\ \E g \in Growths :
          /\ NeedsGrowth(g.n, g.a) /\ g.ex.ret
          /\ GrownSize(g) < H.total_size + required_block_size(g.n, g.a)
                                + align_up(SizeofBlockHeader, kDefaultAlignment)
    /\ \E g \in Growths :
          /\ NeedsGrowth(g.n, g.a) /\ g.ex.ret
          /\ GrownSize(g) > (kGrowNumerator * H.total_size) \div kGrowDenominator

\* user sizes and alignments of the requests whose outcome is examined in
\* every state: the smallest and a large size, the smallest and the largest
\* valid alignment
RequestSizes == {1, 2880, 6000}
ValidAlignments == {kMinAlignment, 64, kMaxAlignment}

C16_RefusedGrowthIntact ==
    Installed =>
        \A n \in RequestSizes, a \in ValidAlignments :
            NeedsGrowth(n, a) =>
                \E r \in {allocate(CurM, s_instance, n, a, nullptr)} :
                    r.ret = nullptr /\ r.M = CurM

\* a refused growth in a state that holds allocations and a previous buffer
C16_Witness ==
    /\ Installed /\ Grown /\ H.alloc_count >= 2
    /\ \E n \in RequestSizes, a \in ValidAlignments :
          NeedsGrowth(n, a) /\ allocate(CurM, s_instance, n, a, nullptr).ret = nullptr

\* pointers handed to deallocate in every state: null, the pointers the caller
\* holds, an address inside each of them, and the user address of every block
\* that is free
ProbePtrs ==
    {nullptr} \cup {l.p : l \in live} \cup {l.p + kMinAlignment : l \in live}
    \cup {user_ptr(b, blk[b].alignment) :
              b \in {x \in DOMAIN blk : blk[x].magic = kBlockMagic /\ ~blk[x].used}}

\* no used block of the current manager has the user address that ptr
\* designates, once translated from the previous buffer
Unrecoverable(ptr) ==
    \/ ptr = nullptr
    \/ \A i \in 1..Len(All) :
          ~(/\ blk[All[i]].used
            /\ user_ptr(All[i], blk[All[i]].alignment) = translate(CurM, s_instance, ptr))

\* C17: deallocate of a null pointer, or of a pointer that is not the user
\* address of a used block, leaves every header and block field unchanged
C17_DeallocateIgnores ==
    Installed =>
        \A p \in ProbePtrs :
            Unrecoverable(p) => deallocate(CurM, s_instance, p) = CurM

\* a grown heap with a used block and a freed one, where the user address of a
\* free block and an address inside an allocation are not recoverable
C17_Witness ==
    /\ Installed /\ Grown /\ H.alloc_count >= 1 /\ H.free_count >= 2
    /\ \E i \in 1..Len(All) :
          ~blk[All[i]].used /\ Unrecoverable(user_ptr(All[i], blk[All[i]].alignment))
    /\ \E l \in live :
          ~Unrecoverable(l.p) /\ Unrecoverable(l.p + kMinAlignment)

\* the used block whose user address is the held pointer p, or nullptr
BlockOf(p) == header_from_ptr(CurM, s_instance, translate(CurM, s_instance, p))

\* the reallocate calls that must move the block: a held pointer of a used
\* block, a size above its user_size, and the outcome of the call
Moves ==
    {[b |-> BlockOf(l.p), n |-> n, nm |-> nm,
      r |-> reallocate(CurM, s_instance, l.p, n, nm)] :
        l \in {x \in live : BlockOf(x.p) # nullptr},
        n \in {2880, 6000},
        nm \in MallocChoices(CurM)}

\* the block at the offset of b in the image that the call leaves current
StillUsed(mv) ==
    /\ mv.r.M.inst + (mv.b - s_instance) \in DOMAIN mv.r.M.blk
    /\ mv.r.M.blk[mv.r.M.inst + (mv.b - s_instance)].used

\* C18: after a successful reallocate to a larger size the old block is free
\* and alloc_count has its value from before the call, also when the inner
\* allocation grew the buffer
C18_ReallocateFreesOld ==
    Installed =>
        \A mv \in Moves :
            (blk[mv.b].user_size < mv.n /\ mv.r.ret # nullptr) =>
                /\ ~StillUsed(mv)
                /\ mv.r.M.hdr[mv.r.M.inst].alloc_count = H.alloc_count
\* C19: when the allocation inside reallocate fails, reallocate returns null
\* and the block, the other blocks and the counters are as before the call
C19_FailedReallocateIntact ==
    Installed =>
        \A mv \in Moves :
            (/\ blk[mv.b].user_size < mv.n
             /\ mv.nm = nullptr
             /\ NeedsGrowth(mv.n, blk[mv.b].alignment)) =>
                /\ mv.r.ret = nullptr
                /\ mv.r.M = CurM
                /\ mv.r.M.blk[mv.b].used

\* a reallocate that needs a growth the host allocator refuses, in a heap
\* with two allocations
C19_Witness ==
    /\ Installed /\ H.alloc_count >= 2
    /\ \E mv \in Moves :
          /\ blk[mv.b].user_size < mv.n
          /\ mv.nm = nullptr
          /\ NeedsGrowth(mv.n, blk[mv.b].alignment)
          /\ mv.r.ret = nullptr

\* ---- reallocate step by step: every lock_guard is an acquire and a release ----

\* mutant: lock() succeeds whoever owns the mutex
Acquire_unowned(t) ==
    /\ s_mutex' = [owner |-> t, count |-> s_mutex.count + 1]

\* std::recursive_mutex: lock() by the owner nests, unlock() undoes one level
Acquire(t) ==
    /\ s_mutex.owner \in {0, t}
    /\ s_mutex' = [owner |-> t, count |-> s_mutex.count + 1]

Release(t) ==
    /\ s_mutex.owner = t
    /\ s_mutex' = IF s_mutex.count = 1 THEN Unlocked
                  ELSE [s_mutex EXCEPT !.count = @ - 1]

Goto(t, rec) == pc' = [pc EXCEPT ![t] = rec]

\* mgr->reallocate(ptr, new_size): the lock_guard at the top of reallocate
ReallocateLock(t, ptr, new_size) ==
    /\ pc[t].at = "idle"
    /\ Callable(mgr[t])
    /\ Acquire(t)
    /\ Goto(t, [Idle EXCEPT !.at = "reallocate", !.top = "reallocate",
                            !.this = mgr[t], !.ptr0 = ptr,
                            !.ptr = ptr, !.new_size = new_size,
                            !.alignment = kDefaultAlignment])
    /\ calls' = calls + 1
    /\ UNCHANGED <<hdr, blk, heap, s_instance, dat, live, file, mgr, obs, coord>>

\* reallocate, from the lock_guard to the call it makes or to its return
ReallocateBody(t) ==
    /\ pc[t].at = "reallocate"
    /\ \E q \in {translate(CurM, pc[t].this, pc[t].ptr0)} :
       \E b \in {header_from_ptr(CurM, pc[t].this, q)} :
          Goto(t, IF pc[t].ptr0 = nullptr THEN [pc[t] EXCEPT !.at = "allocate_call"]
                  ELSE IF pc[t].new_size = 0 THEN [pc[t] EXCEPT !.at = "deallocate_call"]
                  ELSE IF b = nullptr THEN [pc[t] EXCEPT !.at = "return"]
                  ELSE IF pc[t].new_size <= blk[b].user_size
                       THEN [pc[t] EXCEPT !.at = "return", !.ptr = q, !.new_ptr = q]
                       ELSE [pc[t] EXCEPT !.at = "allocate_call", !.ptr = q, !.b = b,
                                          !.alignment = blk[b].alignment,
                                          !.moves = TRUE])
    /\ UNCHANGED <<hdr, blk, heap, s_instance, dat, live, file, mgr, calls, s_mutex, obs, coord>>

\* the lock_guard at the top of allocate, called from reallocate
AllocateLock(t) ==
    /\ pc[t].at = "allocate_call"
    /\ Acquire(t)
    /\ Goto(t, [pc[t] EXCEPT !.at = "allocate"])
    /\ UNCHANGED <<hdr, blk, heap, s_instance, dat, live, file, mgr, calls, obs, coord>>

AllocateBody(t, new_memory) ==
    /\ pc[t].at = "allocate"
    /\ \E r \in {allocate(CurM, pc[t].this, pc[t].new_size, pc[t].alignment, new_memory)} :
          /\ Commit(r.M)
          /\ Goto(t, [pc[t] EXCEPT !.at = "allocate_unlock", !.new_ptr = r.ret])
    /\ UNCHANGED <<live, file, mgr, calls, s_mutex, obs, coord>>

\* allocate returns: its lock_guard is released; reallocate returns the
\* result, or copies the bytes and calls deallocate
AllocateUnlock(t) ==
    /\ pc[t].at = "allocate_unlock"
    /\ pc[t].top = "reallocate"
    /\ Release(t)
    /\ Goto(t, IF pc[t].moves /\ pc[t].new_ptr # nullptr
               THEN [pc[t] EXCEPT !.at = "deallocate_call"]
               ELSE [pc[t] EXCEPT !.at = "return"])
    /\ dat' = IF pc[t].moves /\ pc[t].new_ptr # nullptr /\ dat # <<>>
              THEN copy_bytes(dat, pc[t].new_ptr, pc[t].ptr, blk[pc[t].b].user_size)
              ELSE dat
    /\ UNCHANGED <<hdr, blk, heap, s_instance, live, file, mgr, calls, obs, coord>>

\* the lock_guard at the top of deallocate, called from reallocate
DeallocateLock(t) ==
    /\ pc[t].at = "deallocate_call"
    /\ Acquire(t)
    /\ Goto(t, [pc[t] EXCEPT !.at = "deallocate"])
    /\ UNCHANGED <<hdr, blk, heap, s_instance, dat, live, file, mgr, calls, obs, coord>>

DeallocateBody(t) ==
    /\ pc[t].at = "deallocate"
    /\ Commit(deallocate(CurM, pc[t].this, pc[t].ptr))
    /\ Goto(t, [pc[t] EXCEPT !.at = "deallocate_unlock"])
    /\ UNCHANGED <<live, file, mgr, calls, s_mutex, obs, coord>>

DeallocateUnlock(t) ==
    /\ pc[t].at = "deallocate_unlock"
    /\ pc[t].top = "reallocate"
    /\ Release(t)
    /\ Goto(t, [pc[t] EXCEPT !.at = "return"])
    /\ UNCHANGED <<hdr, blk, heap, s_instance, dat, live, file, mgr, calls, obs, coord>>

\* reallocate returns new_ptr: its lock_guard is released and the caller
\* replaces the pointer it held
ReallocateUnlock(t) ==
    /\ pc[t].at = "return"
    /\ Release(t)
    /\ \E old \in {{l \in live : l.p = pc[t].ptr0}} :
          live' = IF pc[t].ptr0 = nullptr
                  THEN (IF pc[t].new_ptr = nullptr THEN live
                        ELSE live \cup {Alloc(pc[t].new_ptr, pc[t].new_size, kDefaultAlignment)})
                  ELSE IF pc[t].new_size = 0 THEN live \ old
                  ELSE IF pc[t].new_ptr = nullptr THEN live
                  ELSE IF pc[t].moves
                       THEN (live \ old) \cup {Alloc(pc[t].new_ptr, pc[t].new_size, l.alignment) : l \in old}
                       ELSE (live \ old) \cup {Alloc(pc[t].new_ptr, l.size, l.alignment) : l \in old}
    /\ Goto(t, Idle)
    /\ UNCHANGED <<hdr, blk, heap, s_instance, dat, file, mgr, calls, obs, coord>>

\* a thread re-reads instance() between two calls
InstanceIdle(t) == pc[t].at = "idle" /\ Instance(t)

NextLock ==
    \E t \in Threads :
        \/ InstanceIdle(t)
        \/ \E p \in PtrArgs(IF Callable(mgr[t]) THEN mgr[t] ELSE nullptr),
              n \in UserSizes \cup {0} :
              calls < MaxCalls /\ ReallocateLock(t, p, n)
        \/ ReallocateBody(t)
        \/ AllocateLock(t)
        \/ \E nm \in MallocChoices(CurM) : AllocateBody(t, nm)
        \/ AllocateUnlock(t)
        \/ DeallocateLock(t)
        \/ DeallocateBody(t)
        \/ DeallocateUnlock(t)
        \/ ReallocateUnlock(t)

SpecLock == InitMT /\ [][NextLock]_vars

\* C20: during a reallocate call the calling thread never holds the manager
\* lock twice: it does not acquire the lock while it already holds it
C20_NoNestedLock == s_mutex.count <= 1

\* ---- readers and writers on threads: validate() and get_stats() take no lock ----

\* mgr->allocate(user_size, alignment) called by a thread: the lock_guard at
\* the top of allocate
AllocateCall(t, user_size, alignment) ==
    /\ pc[t].at = "idle"
    /\ Callable(mgr[t])
    /\ Acquire(t)
    /\ Goto(t, [Idle EXCEPT !.at = "allocate", !.top = "allocate", !.this = mgr[t],
                            !.new_size = user_size, !.alignment = alignment])
    /\ calls' = calls + 1
    /\ UNCHANGED <<hdr, blk, heap, s_instance, dat, live, file, mgr, obs, coord>>

\* allocate returns to the thread: its lock_guard is released and the caller
\* keeps the pointer
AllocateReturn(t) ==
    /\ pc[t].at = "allocate_unlock"
    /\ pc[t].top = "allocate"
    /\ Release(t)
    /\ live' = IF pc[t].new_ptr = nullptr THEN live
               ELSE live \cup {Alloc(pc[t].new_ptr, pc[t].new_size, pc[t].alignment)}
    /\ Goto(t, Idle)
    /\ UNCHANGED <<hdr, blk, heap, s_instance, dat, file, mgr, calls, obs, coord>>

\* mgr->deallocate(ptr) called by a thread: the lock_guard at the top of
\* deallocate
DeallocateCall(t, ptr) ==
    /\ pc[t].at = "idle"
    /\ Callable(mgr[t])
    /\ Acquire(t)
    /\ Goto(t, [Idle EXCEPT !.at = "deallocate", !.top = "deallocate", !.this = mgr[t],
                            !.ptr0 = ptr, !.ptr = ptr])
    /\ UNCHANGED <<hdr, blk, heap, s_instance, dat, live, file, mgr, calls, obs, coord>>

\* deallocate up to hdr->alloc_count--: the header is recovered, the block is
\* marked free and alloc_count is decremented
DeallocateBegin(t) ==
    /\ pc[t].at = "deallocate"
    /\ \E b \in {IF pc[t].ptr = nullptr THEN nullptr
                 ELSE header_from_ptr(CurM, pc[t].this,
                                      translate(CurM, pc[t].this, pc[t].ptr))} :
          IF b = nullptr
          THEN /\ Goto(t, [pc[t] EXCEPT !.at = "deallocate_unlock"])
               /\ UNCHANGED <<hdr, blk, heap, s_instance, dat>>
          ELSE /\ Commit(release_begin(CurM, pc[t].this, b))
               /\ Goto(t, [pc[t] EXCEPT !.at = "deallocate_mid", !.b = b,
                                        !.freed = blk[b].user_size])
    /\ UNCHANGED <<live, file, mgr, calls, s_mutex, obs, coord>>

\* deallocate from hdr->free_count++ to its end: the counters, the free list
\* and the merge with the neighbours
DeallocateEnd(t) ==
    /\ pc[t].at = "deallocate_mid"
    /\ Commit(coalesce(free_list_insert(release_end(CurM, pc[t].this, pc[t].freed),
                                        pc[t].this, pc[t].b),
                       pc[t].this, pc[t].b))
    /\ Goto(t, [pc[t] EXCEPT !.at = "deallocate_unlock", !.b = nullptr, !.freed = 0])
    /\ UNCHANGED <<live, file, mgr, calls, s_mutex, obs, coord>>

\* deallocate returns to the thread: its lock_guard is released and the
\* caller drops the pointer
DeallocateReturn(t) ==
    /\ pc[t].at = "deallocate_unlock"
    /\ pc[t].top = "deallocate"
    /\ Release(t)
    /\ live' = {l \in live : l.p # pc[t].ptr0}
    /\ Goto(t, Idle)
    /\ UNCHANGED <<hdr, blk, heap, s_instance, dat, file, mgr, calls, obs, coord>>

\* the address p, seen through manager this, is the user address of a used block
ObservedUsed(this, p) ==
    header_from_ptr(CurM, this, translate(CurM, this, p)) # nullptr

\* another thread is between the allocate and the deallocate of a moving
\* reallocate, and manager this records the old and the new block as used
BothLive(t, this) ==
    \E u \in Threads \ {t} :
        /\ pc[u].top = "reallocate" /\ pc[u].moves /\ pc[u].new_ptr # nullptr
        /\ pc[u].at \in {"allocate_unlock", "deallocate_call", "deallocate", "deallocate_mid"}
        /\ ObservedUsed(this, pc[u].ptr)
        /\ ObservedUsed(this, pc[u].new_ptr)

\* what a call made now through manager this by thread t is made during
During(t, this) ==
    [locked |-> s_mutex.count > 0, current |-> this = s_instance, both |-> BothLive(t, this)]

\* mgr->validate() called by a thread: no lock is taken
Validate(t) ==
    /\ pc[t].at = "idle"
    /\ Callable(mgr[t])
    /\ obs' = [kind |-> "validate", ret |-> validate(CurM, mgr[t]),
               total_blocks |-> 0, free_blocks |-> 0, allocated_blocks |-> 0]
              @@ During(t, mgr[t])
    /\ UNCHANGED <<hdr, blk, heap, s_instance, dat, live, file, mgr, calls, s_mutex, pc, coord>>

\* get_stats(mgr) called by a thread: no lock is taken; the snapshot holds the
\* three counters of the header
GetStats(t) ==
    /\ pc[t].at = "idle"
    /\ Callable(mgr[t])
    /\ obs' = [kind |-> "get_stats", ret |-> TRUE,
               total_blocks |-> hdr[mgr[t]].block_count,
               free_blocks |-> hdr[mgr[t]].free_count,
               allocated_blocks |-> hdr[mgr[t]].alloc_count]
              @@ During(t, mgr[t])
    /\ UNCHANGED <<hdr, blk, heap, s_instance, dat, live, file, mgr, calls, s_mutex, pc, coord>>

\* PersistMemoryManager::destroy() called by a thread: the lock_guard at its top
DestroyCall(t) ==
    /\ pc[t].at = "idle"
    /\ s_instance # nullptr
    /\ Acquire(t)
    /\ Goto(t, [Idle EXCEPT !.at = "destroy", !.top = "destroy"])
    /\ calls' = calls + 1
    /\ UNCHANGED <<hdr, blk, heap, s_instance, dat, live, file, mgr, obs, coord>>

DestroyBody(t) ==
    /\ pc[t].at = "destroy"
    /\ Commit(destroy(CurM))
    /\ live' = {}
    /\ Goto(t, [pc[t] EXCEPT !.at = "unlock"])
    /\ UNCHANGED <<file, mgr, calls, s_mutex, obs, coord>>

\* the caller mallocs a buffer and calls create(memory, size): the
\* lock_guard at the top of create
CreateCall(t, size, memory) ==
    /\ pc[t].at = "idle"
    /\ s_instance = nullptr
    /\ memory # nullptr
    /\ Acquire(t)
    /\ Commit(malloc_at(CurM, memory, size))
    /\ Goto(t, [Idle EXCEPT !.at = "create", !.top = "create", !.ptr = memory,
                            !.new_size = size])
    /\ calls' = calls + 1
    /\ UNCHANGED <<live, file, mgr, obs, coord>>

CreateBody(t) ==
    /\ pc[t].at = "create"
    /\ \E r \in {create(CurM, pc[t].ptr, pc[t].new_size)} :
          /\ Commit(r.M)
          /\ Goto(t, [pc[t] EXCEPT !.at = "unlock", !.new_ptr = r.ret])
    /\ UNCHANGED <<live, file, mgr, calls, s_mutex, obs, coord>>

\* the caller mallocs a buffer, reads the file into it and calls
\* load(memory, size): the lock_guard at the top of load
LoadCall(t, memory) ==
    /\ pc[t].at = "idle"
    /\ s_instance = nullptr
    /\ file # NoFile
    /\ memory # nullptr
    /\ Acquire(t)
    /\ Commit(fread(malloc_at(CurM, memory, file.size), memory, file))
    /\ Goto(t, [Idle EXCEPT !.at = "load", !.top = "load", !.ptr = memory,
                            !.new_size = file.size])
    /\ calls' = calls + 1
    /\ UNCHANGED <<live, file, mgr, obs, coord>>

LoadBody(t) ==
    /\ pc[t].at = "load"
    /\ \E r \in {load(CurM, pc[t].ptr, pc[t].new_size)} :
          /\ Commit(r.M)
          /\ Goto(t, [pc[t] EXCEPT !.at = "unlock", !.new_ptr = r.ret])
    /\ live' = {Alloc(pc[t].ptr + l.p, l.size, l.alignment) : l \in file.ptrs}
    /\ file' = NoFile
    /\ UNCHANGED <<mgr, calls, s_mutex, obs, coord>>

\* create, load and destroy return: the lock_guard is released; the caller of
\* create or load keeps the manager returned
StaticReturn(t) ==
    /\ pc[t].at = "unlock"
    /\ Release(t)
    /\ mgr' = IF pc[t].top = "destroy" THEN mgr ELSE [mgr EXCEPT ![t] = pc[t].new_ptr]
    /\ Goto(t, Idle)
    /\ UNCHANGED <<hdr, blk, heap, s_instance, dat, live, file, calls, obs, coord>>

\* mgr->save(filename) called by a thread: no lock is taken; the caller keeps
\* the offsets of the pointers it holds
SaveRead(t) ==
    /\ pc[t].at = "idle"
    /\ Callable(mgr[t])
    /\ file = NoFile
    /\ file' = save(CurM, mgr[t]) @@
               [ptrs |-> {Alloc(OffsetOf(mgr[t], l.p), l.size, l.alignment) :
                              l \in {x \in live : InBuffer(mgr[t], x.p)
                                                  \/ InPrevWindow(mgr[t], x.p)}}]
    /\ obs' = [kind |-> "save", ret |-> TRUE,
               total_blocks |-> 0, free_blocks |-> 0, allocated_blocks |-> 0]
              @@ During(t, mgr[t])
    /\ calls' = calls + 1
    /\ UNCHANGED <<hdr, blk, heap, s_instance, dat, live, mgr, s_mutex, pc, coord>>

\* the pointers a caller holds in the buffer of manager this or in the buffer
\* its growth window translates from
HeldThrough(this) ==
    IF ~Callable(this) THEN {}
    ELSE {l.p : l \in {x \in live : InBuffer(this, x.p) \/ InPrevWindow(this, x.p)}}

NextRW ==
    \E t \in Threads :
        \/ InstanceIdle(t)
        \/ \E n \in {880} : calls < MaxCalls /\ AllocateCall(t, n, kDefaultAlignment)
        \/ \E nm \in MallocChoices(CurM) : AllocateBody(t, nm)
        \/ AllocateReturn(t)
        \/ \E p \in HeldThrough(mgr[t]) : DeallocateCall(t, p)
        \/ DeallocateBegin(t)
        \/ DeallocateEnd(t)
        \/ DeallocateReturn(t)
        \/ \E p \in HeldThrough(mgr[t]) : calls < MaxCalls /\ ReallocateLock(t, p, 2880)
        \/ ReallocateBody(t)
        \/ AllocateLock(t)
        \/ AllocateUnlock(t)
        \/ DeallocateLock(t)
        \/ DeallocateUnlock(t)
        \/ ReallocateUnlock(t)
        \/ Validate(t)
        \/ GetStats(t)
        \/ calls < MaxCalls /\ SaveRead(t)
        \/ calls < MaxCalls /\ DestroyCall(t)
        \/ DestroyBody(t)
        \/ \E memory \in MallocChoices(CurM) :
              calls < MaxCalls /\ CreateCall(t, kMinMemorySize, memory)
        \/ CreateBody(t)
        \/ \E memory \in MallocChoices(CurM) : calls < MaxCalls /\ LoadCall(t, memory)
        \/ LoadBody(t)
        \/ StaticReturn(t)

SpecRW == InitMT /\ [][NextRW]_vars

\* C21: no call made by another thread during a moving reallocate observes the
\* old block and the new block both recorded as used
C21_MoveNotObserved ==
    obs.kind # "none" => ~obs.both

\* C22: no validate() or get_stats() call executes while a thread is inside
\* the critical section of allocate, deallocate or reallocate
C22_ReadsSerialized ==
    obs.kind # "none" => ~obs.locked

\* C23: every validate() call a thread makes on the current manager while
\* other threads allocate and deallocate returns true
C23_ValidateTrue ==
    (obs.kind = "validate" /\ obs.current) => obs.ret

\* C24: every snapshot get_stats returns for the current manager has
\* total_blocks == free_blocks + allocated_blocks
C24_StatsConsistent ==
    (obs.kind = "get_stats" /\ obs.current) =>
        obs.total_blocks = obs.free_blocks + obs.allocated_blocks

\* thread t is inside the critical section of allocate, deallocate or
\* reallocate: every position of a call is reached after the lock_guard of
\* the call
InCritical(t) == pc[t].at # "idle"

\* C25: at most one thread at a time is inside the critical section of a
\* writing call, and that thread owns the lock
C25_OneWriter ==
    /\ Cardinality({t \in Threads : InCritical(t)}) <= 1
    /\ \A t \in Threads : InCritical(t) => (s_mutex.owner = t /\ s_mutex.count >= 1)

\* a thread is in the middle of deallocate after the other thread completed
\* a call, and the other thread holds a pointer it could free
C25_Witness ==
    \E t \in Threads, u \in Threads :
        /\ t # u
        /\ pc[t].at = "deallocate_mid"
        /\ pc[u].at = "idle"
        /\ HeldThrough(mgr[u]) # {}
        /\ calls >= 2

\* ---- save, destroy, load ----

\* the block snapshot of manager this: for each block of the all-blocks list,
\* in list order, its offset, used flag, user_size and alignment
Snapshot(M, this) ==
    [i \in 1..Len(AllBlocks(M, this)) |->
        [offset |-> block_offset(this, AllBlocks(M, this)[i]),
         used |-> M.blk[AllBlocks(M, this)[i]].used,
         user_size |-> M.blk[AllBlocks(M, this)[i]].user_size,
         alignment |-> M.blk[AllBlocks(M, this)[i]].alignment]]

\* load_from_file(filename, memory, size) after D was reached: the caller
\* mallocs memory, the file is read into it and load is called with the file size
load_from_file(D, image, memory) ==
    load(fread(malloc_at(D, memory, image.size), memory, image), memory, image.size)

\* save of the current manager, destroy, and load_from_file into each buffer
\* the host allocator can return: memory is the buffer, L the outcome of load
RoundTrips ==
    {[memory |-> memory,
      L |-> load_from_file(destroy(CurM), save(CurM, s_instance), memory)] :
        memory \in MallocChoices(destroy(CurM)) \ {nullptr}}

\* C26: save, destroy and load of the saved image reproduce the block
\* snapshot: the same blocks at the same offsets with the same used flag,
\* user_size and alignment
C26_RoundTripSnapshot ==
    Installed =>
        \A rt \in RoundTrips :
            /\ rt.L.ret = rt.memory
            /\ rt.L.M.inst = rt.memory
            /\ Snapshot(rt.L.M, rt.memory) = Snapshot(CurM, s_instance)

\* a round trip of a grown heap with two used blocks and a free block between
\* used ones or after them
C26_Witness ==
    /\ Installed /\ Grown /\ H.alloc_count >= 2 /\ H.free_count >= 1
    /\ \E rt \in RoundTrips :
          rt.L.ret = rt.memory /\ Len(Snapshot(rt.L.M, rt.memory)) >= 3

\* ---- pptr<T>: handles that store the offset from the base ----

\* alignof(T) of the node types the callers allocate
AlignOfs == {4, 64}

offset_to_ptr(this, offset) == IF offset = 0 THEN nullptr ELSE this + offset

\* pptr<T>::resolve(manager) of the handle that stores offset
resolve(manager, offset) ==
    IF manager = nullptr \/ offset = 0 THEN nullptr ELSE offset_to_ptr(manager, offset)

\* pptr<T>::get(): the handle is resolved through instance()
get(M, offset) == resolve(M.inst, offset)

\* allocate_typed<T>(): ret is the offset the handle stores, 0 for the null handle
allocate_typed(M, this, sizeof, alignof, new_memory) ==
    LET al == allocate(M, this, sizeof, Max(alignof, kMinAlignment), new_memory)
    IN [M |-> al.M, ret |-> IF al.ret = nullptr THEN 0 ELSE al.ret - this]

\* *p = v through the address a handle resolved to; an address outside every
\* live buffer is not memory of the manager
write(M, p, v) ==
    IF p = nullptr \/ BufOf(p) \notin DOMAIN M.heap THEN M
    ELSE IF M.heap[BufOf(p)].st # "live" THEN M
    ELSE [M EXCEPT !.dat = (p :> v) @@ M.dat]

\* instance()->allocate_typed<Node>() and the caller fills the node through the
\* handle: the node stores its own handle, a list node linked to itself; the
\* caller keeps the address its handle designates
AllocateTyped(this, sizeof, alignof, new_memory) ==
    /\ this # nullptr
    /\ file = NoFile
    /\ calls' = calls + 1
    /\ \E r \in {allocate_typed(CurM, this, sizeof, alignof, new_memory)} :
       \E p \in {get(r.M, r.ret)} :
          /\ Commit(write(r.M, p, r.ret))
          /\ live' = IF p = nullptr THEN live
                     ELSE live \cup {Alloc(p, sizeof, Max(alignof, kMinAlignment))}
    /\ UNCHANGED <<file, mgr, s_mutex, pc, obs, coord>>

NextPptr ==
    \/ \E memory \in MallocChoices(CurM) : Create(kMinMemorySize, memory)
    \/ \E n \in UserSizes, a \in AlignOfs, nm \in MallocChoices(CurM) :
          calls < MaxCalls /\ AllocateTyped(s_instance, n, a, nm)
    \/ \E p \in PtrArgs(s_instance) : Deallocate(s_instance, p)
    \/ calls < MaxCalls /\ Save
    \/ Destroy
    \/ \E memory \in MallocChoices(CurM) : calls < MaxCalls /\ Load(memory)

SpecPptr == Init /\ [][NextPptr]_vars

\* the offsets stored in the handles the caller holds
Handles ==
    {OffsetOf(s_instance, l.p) :
        l \in {x \in live : InBuffer(s_instance, x.p) \/ InPrevWindow(s_instance, x.p)}}

\* the handles that designate bytes of the current image
Designating == {off \in Handles : get(CurM, off) \in DOMAIN dat}

\* C27: after save, destroy and load into any buffer, the handle rebuilt from
\* a stored offset resolves against the loaded manager to the bytes the handle
\* designated before the save, and the handle stored in those bytes resolves to
\* the bytes it resolved to before
C27_HandleRoundTrip ==
    Installed =>
        \A rt \in RoundTrips, off \in Designating :
            rt.L.ret = rt.memory =>
                \E before \in {get(CurM, off)}, after \in {resolve(rt.L.ret, off)} :
                    /\ after \in DOMAIN rt.L.M.dat
                    /\ rt.L.M.dat[after] = dat[before]
                    /\ \E next \in {get(CurM, dat[before])},
                          next2 \in {resolve(rt.L.ret, rt.L.M.dat[after])} :
                          next \in DOMAIN dat =>
                              (next2 \in DOMAIN rt.L.M.dat /\ rt.L.M.dat[next2] = dat[next])

\* a grown image in which two handles designate nodes, loaded at a base with
\* another residue than the base it was saved from
C27_Witness ==
    /\ Installed /\ Grown
    /\ Cardinality(Designating) >= 2
    /\ \E rt \in RoundTrips :
          /\ rt.L.ret = rt.memory
          /\ rt.memory % 64 # s_instance % 64
          /\ \A off \in Designating : resolve(rt.L.ret, off) \in DOMAIN rt.L.M.dat

\* the pointers the caller holds into the current buffer whose block is used
ValidHeld == {l \in live : InBuffer(s_instance, l.p) /\ ObservedUsed(s_instance, l.p)}

\* C28: after save and load into another buffer, for every block used at save
\* time the address new_base + (p - old_base) is accepted by deallocate and
\* frees exactly that block, whatever its alignment
C28_DeallocateAfterLoad ==
    Installed =>
        \A rt \in RoundTrips, l \in ValidHeld :
            rt.L.ret = rt.memory =>
                \E q \in {rt.memory + (l.p - s_instance)},
                   b \in {rt.memory + (BlockOf(l.p) - s_instance)} :
                   \E F \in {deallocate(rt.L.M, rt.memory, q)} :
                      /\ F.hdr[rt.memory].alloc_count = H.alloc_count - 1
                      /\ ~(b \in DOMAIN F.blk /\ F.blk[b].used)
\* the image of the current manager in a buffer the caller malloc'ed, as it
\* is or with the magic of the header overwritten, and a size handed to load
BadLoads ==
    {[B |-> fread(malloc_at(CurM, memory, save(CurM, s_instance).size), memory,
                  [save(CurM, s_instance) EXCEPT !.hdr.magic = magic]),
      memory |-> memory, magic |-> magic, size |-> H.total_size + d] :
        memory \in MallocChoices(CurM) \ {nullptr},
        magic \in {kMagic, kZeroMagic},
        d \in {-8, 0, 8}}

\* C29: load of an image whose magic does not match, or whose total_size
\* differs from the size supplied, returns null, writes nothing and leaves the
\* current manager installed
C29_LoadRefuses ==
    Installed =>
        \A bl \in BadLoads :
            (bl.magic # kMagic \/ bl.size # H.total_size) =>
                \E r \in {load(bl.B, bl.memory, bl.size)} :
                    r.ret = nullptr /\ r.M = bl.B /\ r.M.inst = s_instance

\* a heap with allocations whose image is refused for its magic and for its size
C29_Witness ==
    /\ Installed /\ H.alloc_count >= 1
    /\ \E bl \in BadLoads :
          bl.magic # kMagic /\ bl.size = H.total_size
          /\ load(bl.B, bl.memory, bl.size).ret = nullptr
    /\ \E bl \in BadLoads :
          bl.magic = kMagic /\ bl.size # H.total_size
          /\ load(bl.B, bl.memory, bl.size).ret = nullptr
\* images of the current manager with the right magic and total_size and a
\* malformed block list: block_count one too high, or the prev_offset of a
\* block that has a predecessor cut
Malformed ==
    LET image == save(CurM, s_instance)
    IN {[image EXCEPT !.hdr.block_count = @ + 1]}
       \cup {[image EXCEPT !.blk[o].prev_offset = kNoBlock] :
                o \in {x \in DOMAIN image.blk : image.blk[x].prev_offset # kNoBlock}}

\* load_from_file of each malformed image, after destroy, into a buffer the
\* host allocator returns: B is the buffer after fread, L the outcome of load
MalformedLoads ==
    {[B |-> fread(malloc_at(destroy(CurM), memory, image.size), memory, image),
      memory |-> memory,
      L |-> load_from_file(destroy(CurM), image, memory)] :
        image \in Malformed,
        memory \in MallocChoices(destroy(CurM)) \ {nullptr}}

\* C30: an image with matching magic and total_size whose block list
\* validate() rejects is not installed by load
C30_LoadChecksList ==
    Installed =>
        \A ml \in MalformedLoads :
            ~validate(ml.B, ml.memory) =>
                (ml.L.ret = nullptr /\ ml.L.M.inst # ml.memory)

\* ---- validate() against the invariants of the data model ----

RECURSIVE SumTotalSizes(_, _, _)
SumTotalSizes(M, seq, i) ==
    IF i > Len(seq) THEN 0 ELSE M.blk[seq[i]].total_size + SumTotalSizes(M, seq, i + 1)

\* the invariants of the data model on the image of manager this in M: all is
\* its all-blocks list and fl its free list
Section3(M, this, all, fl) ==
    /\ M.hdr[this].magic = kMagic
    /\ \A i \in 1..Len(all) : M.blk[all[i]].magic = kBlockMagic
    /\ Len(all) >= 1
    /\ M.blk[all[1]].prev_offset = kNoBlock
    /\ M.blk[all[Len(all)]].next_offset = kNoBlock
    /\ \A i \in 1..Len(all) :
          /\ block_offset(this, all[i]) >= 0
          /\ block_offset(this, all[i]) < M.hdr[this].total_size
          /\ i < Len(all) =>
                M.blk[all[i + 1]].prev_offset = block_offset(this, all[i])
    /\ {fl[i] : i \in 1..Len(fl)} = {b \in {all[i] : i \in 1..Len(all)} : ~M.blk[b].used}
    /\ Len(fl) = Cardinality({fl[i] : i \in 1..Len(fl)})
    /\ Len(fl) = M.hdr[this].free_count
    /\ \A i \in 1..(Len(all) - 1) : M.blk[all[i]].used \/ M.blk[all[i + 1]].used
    /\ M.hdr[this].block_count = Len(all)
    /\ M.hdr[this].block_count = M.hdr[this].free_count + M.hdr[this].alloc_count
    /\ M.hdr[this].alloc_count = Cardinality({i \in 1..Len(all) : M.blk[all[i]].used})
    /\ \A i \in 1..Len(all) :
          /\ M.blk[all[i]].total_size >= kMinBlockSize
          /\ M.blk[all[i]].total_size % kMinAlignment = 0
    /\ M.hdr[this].first_block_offset + SumTotalSizes(M, all, 1) = M.hdr[this].total_size

\* the current image after one word of it was overwritten: the head of the
\* free list cut, the total_size of a block shortened by the minimum
\* alignment, a free block marked used, or block_count raised by one
Overwritten ==
    {[CurM EXCEPT !.hdr[s_instance].first_free_offset = kNoBlock],
     [CurM EXCEPT !.hdr[s_instance].block_count = @ + 1]}
    \cup {[CurM EXCEPT !.blk[b].total_size = @ - kMinAlignment] :
             b \in {x \in DOMAIN blk : InBuffer(s_instance, x)}}

\* C31: validate() returns true exactly when the invariants of the data model
\* hold, on the current image and on the image with one word overwritten
C31_ValidateIff ==
    Installed =>
        \A img \in {CurM} \cup Overwritten :
            validate(img, s_instance)
                <=> Section3(img, s_instance, AllBlocks(img, s_instance),
                             FreeBlocks(img, s_instance))

\* ---- used_size ----

\* the sum of user_size over the used blocks of the current all-blocks list
RECURSIVE SumUserSizes(_, _)
SumUserSizes(seq, i) ==
    IF i > Len(seq) THEN 0
    ELSE (IF blk[seq[i]].used THEN blk[seq[i]].user_size ELSE 0) + SumUserSizes(seq, i + 1)

\* what create stores in used_size: the manager header rounded up to the
\* default alignment and the header of the first block
CreatedUsedSize == align_up(SizeofManagerHeader, kDefaultAlignment) + SizeofBlockHeader

\* C32 as stated: used_size is the size of the manager header plus the
\* user_size of every used block
C32_UsedSizeHeader ==
    Installed => H.used_size = SizeofManagerHeader + SumUserSizes(All, 1)

\* C32: used_size is the value create stored, the manager header rounded up
\* plus one block header, plus the user_size of every used block; splits,
\* coalesces, growth and a save/load round trip leave it so
C32_UsedSizeCreated ==
    Installed => H.used_size = CreatedUsedSize + SumUserSizes(All, 1)

\* a grown image with two used blocks and a free block between or after them
C32_Witness ==
    /\ Grown /\ H.alloc_count >= 2 /\ H.free_count >= 1
    /\ H.used_size > CreatedUsedSize + 880

\* ---- the handle of allocate_typed ----

\* C33: the handle allocate_typed returns resolves, through instance(), to
\* the address allocate returned for the block, also when the call grew the
\* buffer
C33_HandleResolves ==
    Installed =>
        \A n \in UserSizes, a \in AlignOfs, nm \in MallocChoices(CurM) :
            \E r \in {allocate_typed(CurM, s_instance, n, a, nm)},
               al \in {allocate(CurM, s_instance, n, Max(a, kMinAlignment), nm)} :
                r.ret # 0 => get(r.M, r.ret) = al.ret

\* ---- ScenarioCoordinator ----

\* the variables of the memory manager, which the coordinator does not touch
pmm == <<hdr, blk, heap, s_instance, dat, live, file, mgr, calls, s_mutex, pc, obs>>

At(t, where) == sc[t].at = where

\* thread t goes on at position where
Step(t, where) == sc' = [sc EXCEPT ![t].at = where]

\* mutant: cv_.notify_one() wakes a single waiter
notify_one(waiting) ==
    IF waiting = {} THEN {} ELSE waiting \ {CHOOSE u \in waiting : \A v \in waiting : u <= v}

\* cv_.notify_all(): the threads that still wait afterwards
notify_all(waiting) == {}

\* pause_others(): paused_ is stored under mutex_; nobody is notified
pause_others(t, next) ==
    /\ mutex_ = 0
    /\ paused_' = TRUE
    /\ Step(t, next)
    /\ UNCHANGED <<mutex_, cv_, stop_flag, pmm>>

\* resume_others() up to the end of the lock_guard: paused_ is cleared
resume_store(t) ==
    /\ mutex_ = 0
    /\ paused_' = FALSE
    /\ Step(t, "notify_all")
    /\ UNCHANGED <<mutex_, cv_, stop_flag, pmm>>

\* the cv_.notify_all() that ends resume_others(): every woken waiter goes on
\* to take mutex_ again
resume_notify(t, next) ==
    /\ At(t, "notify_all")
    /\ cv_' = notify_all(cv_)
    /\ sc' = [u \in DOMAIN sc |->
                IF u = t THEN [sc[u] EXCEPT !.at = next]
                ELSE IF u \in cv_ \ notify_all(cv_) THEN [sc[u] EXCEPT !.at = "yield_relock"]
                ELSE sc[u]]
    /\ UNCHANGED <<paused_, mutex_, stop_flag, pmm>>

\* yield_if_paused(stop_flag) called at position from, returning to next: the
\* first load of paused_, without the lock
YieldLoad(t, from, next) ==
    /\ At(t, from)
    /\ sc' = [sc EXCEPT ![t].at = IF paused_ THEN "yield_lock" ELSE next, ![t].ret = next]
    /\ UNCHANGED <<paused_, mutex_, cv_, stop_flag, pmm>>

\* std::unique_lock lk(mutex_)
YieldLock(t) ==
    /\ At(t, "yield_lock")
    /\ mutex_ = 0
    /\ mutex_' = t
    /\ Step(t, "yield_pred")
    /\ UNCHANGED <<paused_, cv_, stop_flag, pmm>>

\* cv_.wait(lk, pred) with the lock held: when the predicate holds the call
\* returns and lk is released, otherwise lk is released and the thread blocks
YieldPred(t) ==
    /\ At(t, "yield_pred")
    /\ mutex_' = 0
    /\ IF ~paused_ \/ stop_flag[t]
       THEN /\ Step(t, sc[t].ret)
            /\ UNCHANGED cv_
       ELSE /\ sc' = [sc EXCEPT ![t].at = "yield_wait", ![t].waited = TRUE]
            /\ cv_' = cv_ \cup {t}
    /\ UNCHANGED <<paused_, stop_flag, pmm>>

\* a woken waiter takes mutex_ again and evaluates the predicate once more
YieldRelock(t) ==
    /\ At(t, "yield_relock")
    /\ mutex_ = 0
    /\ mutex_' = t
    /\ Step(t, "yield_pred")
    /\ UNCHANGED <<paused_, cv_, stop_flag, pmm>>

\* a wait may end without a notification
SpuriousWake(t) ==
    /\ At(t, "yield_wait")
    /\ cv_' = cv_ \ {t}
    /\ Step(t, "yield_relock")
    /\ UNCHANGED <<paused_, mutex_, stop_flag, pmm>>

\* stop_flag.store(true) by thread t for scenario thread u
StopFlagStore(t, u, next) ==
    /\ stop_flag' = [stop_flag EXCEPT ![u] = TRUE]
    /\ Step(t, next)
    /\ UNCHANGED <<paused_, mutex_, cv_, pmm>>

\* the steps of yield_if_paused that thread t takes by itself
YieldStep(t) == YieldLock(t) \/ YieldPred(t) \/ YieldRelock(t)

\* ---- the tests of the coordinator: a main thread pauses, starts threads that
\* call yield_if_paused once, may set their stop flag, and resumes once ----

MainPause == At(Main, "start") /\ pause_others(Main, "paused")

MainStop(u) == At(Main, "paused") /\ ~stop_flag[u] /\ StopFlagStore(Main, u, "paused")

MainResume == At(Main, "paused") /\ resume_store(Main)

MainNotify == resume_notify(Main, "join")

ThreadYield(t) == YieldLoad(t, "start", "returned")

NextCoord ==
    \/ MainPause
    \/ \E u \in ScenarioIds : MainStop(u)
    \/ MainResume
    \/ MainNotify
    \/ \E t \in ScenarioIds : ThreadYield(t)
    \/ \E t \in ScenarioIds : YieldLock(t)
    \/ \E t \in ScenarioIds : YieldPred(t)
    \/ \E t \in ScenarioIds : YieldRelock(t)
    \/ \E t \in ScenarioIds : SpuriousWake(t)

\* a thread that can take a step takes it, and a resume_others() that stored
\* paused_ goes on to notify; nothing makes the main thread call
\* resume_others(), and no wait is bound to end spuriously
SpecCoord ==
    /\ Init /\ [][NextCoord]_vars
    /\ \A t \in ScenarioIds : WF_vars(ThreadYield(t) \/ YieldStep(t))
    /\ WF_vars(MainNotify)

\* thread t is in yield_if_paused and found the pause active
Blocked(t) == sc[t].at \in {"yield_lock", "yield_pred", "yield_wait", "yield_relock"}

\* ---- the demo: a ScenarioManager starts scenario threads over one manager
\* and one coordinator, stops them all and joins them ----

\* the scenarios the manager holds: scenario 1 runs PersistenceCycle, the
\* other one runs LinearFill
DemoIds == {1, 2}
PCycle == 1
Fillers == DemoIds \ {PCycle}

\* params.min_block_size and max_block_size of the two scenarios, as the
\* parameter panel may set them: the largest request of the model, of which
\* one block fits a buffer of the minimum size
LinearFillSize == CHOOSE n \in UserSizes : \A m \in UserSizes : m <= n
CycleBlockSize == LinearFillSize

\* PersistenceCycle allocates up to four blocks in a cycle
CycleBlocks == 4

\* a step of thread t that touches only its locals
Local(t, rec) ==
    /\ sc' = [sc EXCEPT ![t] = rec]
    /\ UNCHANGED <<paused_, mutex_, cv_, stop_flag, pmm>>

\* a step of thread t that ends a call into the manager with machine M
Call(t, M, rec) ==
    /\ Commit(M)
    /\ sc' = [sc EXCEPT ![t] = rec]
    /\ UNCHANGED <<paused_, mutex_, cv_, stop_flag, live, file, mgr, calls, s_mutex, pc, obs>>

\* the buffer that holds address p was released
Released(p) == p # nullptr /\ heap[BufOf(p)].st # "live"

\* ScenarioManager::start(index): stop_flag.store(false), and the thread
\* enters Scenario::run
DemoStart(t) ==
    /\ At(Main, "start")
    /\ At(t, "start")
    /\ stop_flag' = [stop_flag EXCEPT ![t] = FALSE]
    /\ Step(t, "run")
    /\ UNCHANGED <<paused_, mutex_, cv_, pmm>>

\* LinearFill::run up to the outer loop; the mgr = instance() it begins with
\* is assigned again before it is read
LfRun(t) ==
    /\ At(t, "run")
    /\ Local(t, [sc[t] EXCEPT !.at = "outer"])

\* the head of the outer loop: while (!stop) { mgr_before = instance();
LfOuter(t) ==
    /\ At(t, "outer")
    /\ Local(t, IF stop_flag[t] THEN [sc[t] EXCEPT !.at = "done"]
                ELSE [sc[t] EXCEPT !.before = s_instance, !.at = "yield_outer"])

\* after yield_if_paused: if (stop) break; if (instance() != mgr_before)
\* live.clear();
LfOuter2(t) ==
    /\ At(t, "outer2")
    /\ Local(t, IF stop_flag[t] THEN [sc[t] EXCEPT !.before = nullptr, !.at = "done"]
                ELSE [sc[t] EXCEPT !.held = IF s_instance # sc[t].before THEN <<>> ELSE @,
                                   !.before = nullptr, !.at = "inner"])

\* the head of the fill loop: while (!stop) { inner_before = instance();
LfInner(t) ==
    /\ At(t, "inner")
    /\ Local(t, IF stop_flag[t] THEN [sc[t] EXCEPT !.at = "free"]
                ELSE [sc[t] EXCEPT !.before = s_instance, !.at = "yield_inner"])

\* after yield_if_paused: if (stop) break; if (instance() != inner_before)
\* live.clear(); mgr = instance(); if (!mgr) break;
LfInner2(t) ==
    /\ At(t, "inner2")
    /\ Local(t, IF stop_flag[t] THEN [sc[t] EXCEPT !.before = nullptr, !.at = "free"]
                ELSE [sc[t] EXCEPT !.held = IF s_instance # sc[t].before THEN <<>> ELSE @,
                                   !.before = nullptr, !.mgr = s_instance,
                                   !.at = IF s_instance = nullptr THEN "free" ELSE "allocate"])

\* ptr = mgr->allocate(p.min_block_size); if (!ptr) break; live.push_back(ptr);
\* the host allocator refuses the growth
LfAllocate(t) ==
    /\ At(t, "allocate")
    /\ Callable(sc[t].mgr)
    /\ \E r \in {allocate(CurM, sc[t].mgr, LinearFillSize, kDefaultAlignment, nullptr)} :
          Call(t, r.M, IF r.ret = nullptr THEN [sc[t] EXCEPT !.mgr = nullptr, !.at = "free"]
                       ELSE [sc[t] EXCEPT !.mgr = nullptr, !.held = Append(@, r.ret),
                                          !.at = "inner"])

\* the free phase begins: mgr = instance()
LfFree(t) ==
    /\ At(t, "free")
    /\ Local(t, [sc[t] EXCEPT !.mgr = s_instance, !.at = "freeing"])

\* for (ptr : live) { if (stop) break; if (mgr) mgr->deallocate(ptr); }
\* live.clear();
LfFreeing(t) ==
    /\ At(t, "freeing")
    /\ IF sc[t].held = <<>> \/ stop_flag[t]
       THEN Local(t, [sc[t] EXCEPT !.mgr = nullptr, !.held = <<>>, !.at = "outer"])
       ELSE IF sc[t].mgr = nullptr
       THEN Local(t, [sc[t] EXCEPT !.held = Tail(@)])
       ELSE /\ Callable(sc[t].mgr)
            /\ ~Released(Head(sc[t].held))
            /\ Call(t, deallocate(CurM, sc[t].mgr, Head(sc[t].held)),
                    [sc[t] EXCEPT !.held = Tail(@)])

\* thread t is about to call into the manager through mgr with a buffer that
\* was released: the manager's own, or the one its pointer argument lies in
UseAfterFree(t) ==
    \/ /\ At(t, "allocate")
       /\ ~Callable(sc[t].mgr)
    \/ /\ At(t, "freeing")
       /\ sc[t].held # <<>>
       /\ sc[t].mgr # nullptr
       /\ ~stop_flag[t]
       /\ ~Callable(sc[t].mgr) \/ Released(Head(sc[t].held))

\* a call that reads released memory may end the process
Crash(t) ==
    /\ UseAfterFree(t)
    /\ Local(t, [sc[t] EXCEPT !.at = "crashed"])

\* or it may return having found nothing it takes for a manager or a block
Survive(t) ==
    /\ UseAfterFree(t)
    /\ Local(t, IF At(t, "allocate") THEN [sc[t] EXCEPT !.mgr = nullptr, !.at = "free"]
                ELSE [sc[t] EXCEPT !.held = Tail(@)])

LinearFill(t) ==
    \/ LfRun(t) \/ LfOuter(t) \/ YieldLoad(t, "yield_outer", "outer2") \/ LfOuter2(t)
    \/ LfInner(t) \/ YieldLoad(t, "yield_inner", "inner2") \/ LfInner2(t)
    \/ LfAllocate(t) \/ LfFree(t) \/ LfFreeing(t)
    \/ YieldStep(t)

\* PersistenceCycle::run up to the loop; the mgr = instance() it begins with
\* is assigned again before it is read
PcRun(t) ==
    /\ At(t, "run")
    /\ Local(t, [sc[t] EXCEPT !.at = "p_outer"])

\* while (!stop) {
PcOuter(t) ==
    /\ At(t, "p_outer")
    /\ Local(t, IF stop_flag[t] THEN [sc[t] EXCEPT !.at = "p_cleanup_read"]
                ELSE [sc[t] EXCEPT !.i = 0, !.at = "p_alloc"])

\* for (i = 0; i < 4 && !stop; ++i) { mgr = instance(); if (!mgr) break;
\* ptr = mgr->allocate(size); if (ptr) { memset(ptr, i + 1, ..);
\* live.push_back(ptr); } }
PcAlloc(t) ==
    /\ At(t, "p_alloc")
    /\ IF sc[t].i >= CycleBlocks \/ stop_flag[t] \/ s_instance = nullptr
       THEN Local(t, [sc[t] EXCEPT !.i = 0, !.at = "p_check"])
       ELSE \E r \in {allocate(CurM, s_instance, CycleBlockSize, kDefaultAlignment, nullptr)} :
               Call(t, write(r.M, r.ret, sc[t].i + 1),
                    [sc[t] EXCEPT !.held = IF r.ret = nullptr THEN @ ELSE Append(@, r.ret),
                                  !.i = @ + 1])

\* if (stop) break; mgr = instance(); if (!mgr) break;
PcCheck(t) ==
    /\ At(t, "p_check")
    /\ Local(t, IF stop_flag[t] THEN [sc[t] EXCEPT !.at = "p_cleanup_read"]
                ELSE [sc[t] EXCEPT !.mgr = s_instance,
                                   !.at = IF s_instance = nullptr THEN "p_cleanup_read"
                                          ELSE "p_save"])

\* save(mgr, "pmm_demo.bin")
PcSave(t) ==
    /\ At(t, "p_save")
    /\ Callable(sc[t].mgr)
    /\ file' = save(CurM, sc[t].mgr)
    /\ sc' = [sc EXCEPT ![t].at = "p_free"]
    /\ UNCHANGED <<paused_, mutex_, cv_, stop_flag, hdr, blk, heap, s_instance, dat,
                   live, mgr, calls, s_mutex, pc, obs>>

\* for (ptr : live) mgr->deallocate(ptr); live.clear();
PcFree(t) ==
    /\ At(t, "p_free")
    /\ Callable(sc[t].mgr)
    /\ IF sc[t].held = <<>> THEN Local(t, [sc[t] EXCEPT !.at = "p_malloc"])
       ELSE /\ ~Released(Head(sc[t].held))
            /\ Call(t, deallocate(CurM, sc[t].mgr, Head(sc[t].held)),
                    [sc[t] EXCEPT !.held = Tail(@)])

\* total = mgr->total_size(); buf = malloc(total); if (!buf) break;
PcMalloc(t, memory) ==
    /\ At(t, "p_malloc")
    /\ Callable(sc[t].mgr)
    /\ IF memory = nullptr THEN Local(t, [sc[t] EXCEPT !.mgr = nullptr, !.at = "p_cleanup_read"])
       ELSE Call(t, malloc_at(CurM, memory, hdr[sc[t].mgr].total_size),
                 [sc[t] EXCEPT !.mgr = nullptr, !.buf = memory, !.at = "p_pause"])

\* coord.pause_others()
PcPause(t) == At(t, "p_pause") /\ pause_others(t, "p_sleep")

\* sleep_for(50 ms): the other threads are given time, and nothing is waited for
PcSleep(t) ==
    /\ At(t, "p_sleep")
    /\ Local(t, [sc[t] EXCEPT !.at = "p_destroy"])

\* PersistMemoryManager::destroy()
PcDestroy(t) ==
    /\ At(t, "p_destroy")
    /\ Call(t, destroy(CurM), [sc[t] EXCEPT !.at = "p_load"])

\* mgr2 = load_from_file("pmm_demo.bin", buf, total); if (mgr2) {
\* mgr2->validate(); mgr = mgr2; } else mgr = create(buf, total); mgr is
\* assigned again before it is read
PcLoad(t) ==
    /\ At(t, "p_load")
    /\ \E r \in {load_from_file(CurM, file, sc[t].buf)} :
          IF r.ret # nullptr
          THEN Call(t, r.M, [sc[t] EXCEPT !.buf = nullptr, !.at = "p_resume"])
          ELSE \E c \in {create(r.M, sc[t].buf, file.size)} :
                  Call(t, c.M, [sc[t] EXCEPT !.buf = nullptr, !.at = "p_resume"])

\* coord.resume_others()
PcResume(t) == At(t, "p_resume") /\ resume_store(t)

PcNotify(t) == resume_notify(t, "p_wait")

\* the wait for the cycle period: until the deadline or stop
PcWait(t) ==
    /\ At(t, "p_wait")
    /\ Local(t, [sc[t] EXCEPT !.at = "p_outer"])

\* the cleanup after the loop: mgr = instance();
PcCleanupRead(t) ==
    /\ At(t, "p_cleanup_read")
    /\ Local(t, [sc[t] EXCEPT !.mgr = s_instance, !.at = "p_cleanup"])

\* if (mgr) for (ptr : live) mgr->deallocate(ptr);
PcCleanup(t) ==
    /\ At(t, "p_cleanup")
    /\ IF sc[t].held = <<>> \/ sc[t].mgr = nullptr
       THEN Local(t, [sc[t] EXCEPT !.mgr = nullptr, !.held = <<>>, !.at = "done"])
       ELSE /\ Callable(sc[t].mgr)
            /\ ~Released(Head(sc[t].held))
            /\ Call(t, deallocate(CurM, sc[t].mgr, Head(sc[t].held)),
                    [sc[t] EXCEPT !.held = Tail(@)])

PersistenceCycle(t) ==
    \/ PcRun(t) \/ PcOuter(t) \/ PcAlloc(t) \/ PcCheck(t) \/ PcSave(t) \/ PcFree(t)
    \/ \E memory \in {m \in MallocChoices(CurM) : m % Region = 0} : PcMalloc(t, memory)
    \/ PcPause(t) \/ PcSleep(t) \/ PcDestroy(t) \/ PcLoad(t) \/ PcResume(t) \/ PcNotify(t)
    \/ PcWait(t) \/ PcCleanupRead(t) \/ PcCleanup(t)

\* ScenarioManager::stop_all() is called
DemoStopAll ==
    /\ At(Main, "start")
    /\ Local(Main, [sc[Main] EXCEPT !.at = "stop_all", !.i = 1])

\* for (s : states_) s->stop_flag.store(true): one store, nobody is notified
DemoStopStore ==
    /\ At(Main, "stop_all")
    /\ stop_flag' = [stop_flag EXCEPT ![sc[Main].i] = TRUE]
    /\ sc' = [sc EXCEPT ![Main] = IF sc[Main].i = Cardinality(DemoIds)
                                  THEN [@ EXCEPT !.at = "join_all", !.i = 1]
                                  ELSE [@ EXCEPT !.i = @ + 1]]
    /\ UNCHANGED <<paused_, mutex_, cv_, pmm>>

\* join_all(): for (s : states_) if (s->thread.joinable()) s->thread.join();
\* a join returns when the thread left Scenario::run
DemoJoin ==
    /\ At(Main, "join_all")
    /\ sc[sc[Main].i].at \in {"start", "done"}
    /\ Local(Main, IF sc[Main].i = Cardinality(DemoIds)
                   THEN [sc[Main] EXCEPT !.at = "joined"]
                   ELSE [sc[Main] EXCEPT !.i = @ + 1])

ScenarioManager == DemoStopAll \/ DemoStopStore \/ DemoJoin

NextDemo ==
    \/ \E t \in DemoIds : DemoStart(t)
    \/ ScenarioManager
    \/ PersistenceCycle(PCycle)
    \/ \E t \in Fillers : LinearFill(t)
    \/ \E t \in Fillers : SpuriousWake(t)
    \/ \E t \in Fillers : Crash(t)
    \/ \E t \in Fillers : Survive(t)

\* thread t can take a step of its scenario: it runs, it is not waiting on
\* cv_, the mutex_ it is about to lock is free, and the call it is about to
\* make reads no released memory
Ready(t) ==
    /\ sc[t].at \notin {"start", "done", "crashed", "yield_wait"}
    /\ sc[t].at \in {"yield_lock", "yield_relock", "p_pause", "p_resume"} => mutex_ = 0
    /\ sc[t].at \in {"allocate", "p_save", "p_free", "p_malloc"} => Callable(sc[t].mgr)
    /\ sc[t].at \in {"freeing", "p_cleanup"} =>
          \/ sc[t].held = <<>> \/ sc[t].mgr = nullptr
          \/ At(t, "freeing") /\ stop_flag[t]
          \/ Callable(sc[t].mgr) /\ ~Released(Head(sc[t].held))
    /\ At(t, "p_free") /\ sc[t].held # <<>> => ~Released(Head(sc[t].held))

\* a step of thread t's scenario: every one of them changes the thread's
\* position or locals, and a notification moves only a thread that is not
\* Ready; the first disjunct implies the second and names one such step
Runs(t) ==
    /\ Ready(t)
    /\ \/ Local(t, [sc[t] EXCEPT !.at = "scheduled"])
       \/ sc'[t] # sc[t]

\* the operating system schedules every thread that can take a step; no wait
\* is bound to end spuriously, and no read of released memory is bound to
\* end one way
SpecDemo ==
    /\ InitMT /\ [][NextDemo]_vars
    /\ WF_vars(ScenarioManager)
    /\ \A t \in DemoIds : WF_vars(Runs(t))

\* PersistenceCycle destroyed the manager and has not reloaded it yet
InWindow == At(PCycle, "p_load")

\* thread t holds the singleton's pointer and is at a call through it
InManager(t) == sc[t].at \in {"allocate", "freeing"} /\ sc[t].mgr # nullptr

\* C34: between PersistenceCycle's destroy() and load_from_file() no other
\* scenario thread is in a call into the manager or holds the singleton for one
C34_WindowExclusive == InWindow => \A t \in Fillers : ~InManager(t)

\* C40: once stop_all() stored every stop flag, join_all() returns: every
\* started scenario thread, also one that was blocked in yield_if_paused()
\* when its flag was stored, leaves run
C40_JoinAllReturns == At(Main, "join_all") ~> At(Main, "joined")

\* ---- threads that read instance() before every allocate ----

\* instance() as the first half of instance()->allocate(..): the read takes no
\* lock
InstanceRead(t) ==
    /\ pc[t].at = "idle"
    /\ mgr' = [mgr EXCEPT ![t] = s_instance]
    /\ pc' = [pc EXCEPT ![t].at = "read"]
    /\ UNCHANGED <<hdr, blk, heap, s_instance, dat, live, file, calls, s_mutex, obs, coord>>

\* the allocate that follows: the lock is taken inside the call, which then
\* runs to its end on the manager that was read
AllocateRead(t, user_size, new_memory) ==
    /\ pc[t].at = "read"
    /\ Callable(mgr[t])
    /\ calls < MaxCallsMT
    /\ calls' = calls + 1
    /\ \E r \in {allocate(CurM, mgr[t], user_size, kDefaultAlignment, new_memory)} :
          /\ Commit(r.M)
          /\ live' = IF r.ret = nullptr THEN live
                     ELSE live \cup {Alloc(r.ret, user_size, kDefaultAlignment)}
    /\ pc' = [pc EXCEPT ![t].at = "idle"]
    /\ UNCHANGED <<file, mgr, s_mutex, obs, coord>>

\* the manager that was read lies in a buffer a second growth released: the
\* call reads released memory, and the thread is not followed further
AllocateReleased(t) ==
    /\ pc[t].at = "read"
    /\ mgr[t] # nullptr /\ ~Callable(mgr[t])
    /\ pc' = [pc EXCEPT ![t].at = "released"]
    /\ UNCHANGED <<hdr, blk, heap, s_instance, dat, live, file, mgr, calls, s_mutex, obs, coord>>

NextRead ==
    \E t \in Threads :
        \/ InstanceRead(t)
        \/ \E n \in UserSizes, nm \in MallocChoices(CurM) : AllocateRead(t, n, nm)
        \/ AllocateReleased(t)

SpecRead == InitMT /\ [][NextRead]_vars

\* the managers other than the singleton whose buffers are still allocated:
\* growth has superseded them
Superseded == DOMAIN hdr \ {s_instance}

\* C37: with every thread reading instance() before each allocate, no call
\* writes a header field in a buffer that growth had superseded before the
\* call, and no call returns memory of such a buffer
C37_CurrentBuffer ==
    [][\A x \in Superseded :
          /\ x \in DOMAIN hdr' => hdr'[x] = hdr[x]
          /\ \A a \in live' \ live : ~(a.p >= x /\ a.p < x + hdr[x].total_size)]_vars

\* ---- one life of a manager: create, calls through the current manager,
\* destroy ----

NextLife ==
    \/ \E memory \in MallocChoices(CurM) : Create(kMinMemorySize, memory)
    \/ \E n \in UserSizes, nm \in MallocChoices(CurM) :
          calls < MaxCalls /\ Allocate(s_instance, n, kDefaultAlignment, nm)
    \/ \E l \in live : Deallocate(s_instance, l.p)
    \/ \E l \in live, n \in UserSizes, nm \in MallocChoices(CurM) :
          calls < MaxCalls /\ Reallocate(s_instance, l.p, n, nm)
    \/ Destroy

SpecLife == Init /\ [][NextLife]_vars

\* the buffers the host allocator handed out to expand(): create's caller got
\* the first one
GrowthBufs == {i \in DOMAIN heap : i > 1 /\ heap[i].st # "none"}

\* destroy() has run
Destroyed == s_instance = nullptr /\ \E i \in DOMAIN heap : heap[i].st # "none"

CallerFree ==
    /\ Destroyed
    /\ obs = NoObs
    /\ Commit(free(CurM, Region))
    /\ obs' = [kind |-> "caller_free"]
    /\ UNCHANGED <<live, file, mgr, calls, s_mutex, pc, coord>>

NextCaller == NextLife \/ CallerFree

SpecCaller == Init /\ [][NextCaller]_vars

\* C39: destroy() leaves the buffer that create() was given to the caller,
\* who releases it afterwards, and no buffer is released twice
C39_CallerBufferKept ==
    /\ Destroyed /\ obs = NoObs => heap[1].st = "live"
    /\ \A i \in DOMAIN heap : heap[i].st # "double_free"

\* C35: a thread blocked in yield_if_paused() returns once its stop_flag is
\* true, also while the pause stays active
C35_StopBreaksPause ==
    \A t \in ScenarioIds : (Blocked(t) /\ stop_flag[t]) ~> At(t, "returned")

\* C36: once resume_others() was called, every thread that is blocked in
\* yield_if_paused() returns
C36_ResumeWakesAll ==
    \A t \in ScenarioIds :
        (Blocked(t) /\ sc[Main].at \in {"notify_all", "join"}) ~> At(t, "returned")

\* the three threads waited on cv_ with their stop flags clear and all
\* returned after the one resume_others()
C36_Witness ==
    /\ At(Main, "join")
    /\ \A t \in ScenarioIds : At(t, "returned") /\ sc[t].waited /\ ~stop_flag[t]

====
